---- MODULE Spec2Model ----
(***************************************************************************)
(* The HTTP request core of the Cattr client SDK (src/src/index.js):       *)
(* get / post / put / patch with token attachment, the automatic           *)
(* re-authentication helper reloginAutomatically and the single retry      *)
(* that follows a recoverable 401.                                         *)
(*                                                                         *)
(* Every `await` of the JavaScript source is a suspension point and so a   *)
(* separate step: code between two awaits runs in one step.  The token     *)
(* provider and the credentials provider belong to the embedding           *)
(* application; the server's answers are chosen nondeterministically.      *)
(*                                                                         *)
(* On top of the core: the base-URL resolver setBaseUrl, isCattrInstance,  *)
(* the authentication operations (authentication.js) and the resource      *)
(* operations, each of which issues core calls and turns their outcome     *)
(* into a return value or a thrown error.                                  *)
(***************************************************************************)
EXTENDS Naturals, Sequences, FiniteSets

VARIABLES
    tokenStore,   \* value held by providers.token (what its get() yields)
    credentials,  \* behaviour of providers.credentials
    pc,           \* position of each call inside get()/post()
    args,         \* url, body and entry point of each call
    opts,         \* the options record of the running invocation
    site,         \* which `await this.reloginAutomatically()` is pending
    err,          \* the error caught by the catch block of get()/post()
    token,        \* the local `const token` of the running invocation
    answers,      \* the transport's answers to this call's own requests
    authRes,      \* token returned by authentication.login inside relogin
    depth,        \* number of recursive re-invocations ("Say hi to recursion!")
    sent,         \* requests this call handed to the transport, in order
    outcome,      \* what the call resolved to (or that it rejected)
    relog,        \* history of the reloginAutomatically invocations of the call
    op,           \* the operation of the SDK that issued the call
    trace,        \* the core calls the operation has awaited so far
    result,       \* what the operation returned or threw
    baseUrl,      \* this.axiosConfiguration.baseURL
    entity,       \* the records a resource's represent() produced for the caller
    held,         \* an options record the application keeps and passes again
    revoked       \* the tokens the backend has logged out

vars == << tokenStore, credentials, pc, args, opts, site, err, token, answers,
           authRes, depth, sent, outcome, relog, op, trace, result, baseUrl,
           entity, held, revoked >>

\* what neither the request core nor the operations built on it touch
aside == << entity, held, revoked >>

\* what the request core itself never touches
upper == << op, trace, result, baseUrl, aside >>

\* the state of the request core
core == << tokenStore, credentials, pc, args, opts, site, err, token, answers,
           authRes, depth, sent, outcome, relog >>

----------------------------------------------------------------------------
(* Bounds and value sets *)

MaxTok == 2

\* the recursion of get()/post() is followed up to this depth
MaxDepth == 2

Calls == {"c1", "c2"}

Tokens == 1..MaxTok

NoToken == 0

\* a string is the sequence of its pieces: concatenation is \o
Urls == {<< "tasks/list" >>, << "auth/me" >>}

Verbs == {"get", "post", "put", "patch"}

NoBody == [k \in {} |-> ""]

\* field names of a request body, as sequences of pieces
FieldNames ==
    { << "name" >>, << "user_", "password" >>, << "access_", "token" >>,
      << "client_", "secret" >>, << "api_key" >>, << "screenshot", "_file" >>,
      << "pass", "_", "word" >> }

\* the value a caller put into a field
Original(k) == << "value of" >> \o k

Bodies == {NoBody, [k \in FieldNames |-> Original(k)]}

\* providers.credentials: not configured, get() yields nothing, yields usable
\* credentials, yields credentials login() refuses, or get() rejects
CredentialsBehaviours == {"unset", "empty", "valid", "malformed", "rejects"}

----------------------------------------------------------------------------
(* Transport answers *)

\* an answer of the transport.  kind: 2xx answer, error status, or no
\* response at all; code: the machine-readable code of an error body and
\* at: the field that holds it (data.code, data.error.code or
\* data.error_type); token, tokenType, expires: access_token, token_type and
\* whether expires_in is a string; origin: frontend_uri; marker: the
\* identity marker of a status payload
NoResp ==
    [kind |-> "none", status |-> 0, code |-> "none", at |-> "none",
     token |-> NoToken, tokenType |-> "none", expires |-> FALSE,
     origin |-> << >>, marker |-> "none"]

OkResp == [NoResp EXCEPT !.kind = "ok", !.status = 200]

NoResponse == [NoResp EXCEPT !.kind = "noResponse"]

\* the TypeError of calling this.axios while it is still null: an exception
\* raised at the transport call, with no response field
NotAFunction == [NoResp EXCEPT !.kind = "typeError"]

ErrorCodes ==
    {"authorization.unauthorized", "authorization.token_expired",
     "authorization.wrong_credentials"}

\* error answers whose body holds the code in data.code
ErrorResponses ==
    { [NoResp EXCEPT !.kind = "error", !.status = s, !.code = c, !.at = "code"] :
        s \in {401, 500}, c \in ErrorCodes }

\* error answers whose body holds the code in data.error.code or in
\* data.error_type
ShapedErrorResponses ==
    { [NoResp EXCEPT !.kind = "error", !.status = s, !.code = c, !.at = a] :
        s \in {401, 500}, c \in {"authorization.unauthorized"},
        a \in {"error.code", "error_type"} }

Responses == {OkResp, NoResponse} \cup ErrorResponses

\* answers to POST auth/login: a 2xx answer carries the new token, or a
\* payload login() cannot read (token = NoToken)
LoginResponses ==
    { [OkResp EXCEPT !.token = t,
                     !.tokenType = IF t = NoToken THEN "none" ELSE "bearer",
                     !.expires = t # NoToken] :
        t \in Tokens \cup {NoToken} }
    \cup {NoResponse} \cup ErrorResponses

\* answers to POST auth/refresh: each of access_token, token_type and
\* expires_in is a string or is not
RefreshResponses ==
    { [OkResp EXCEPT !.token = t, !.tokenType = ty, !.expires = e] :
        t \in Tokens \cup {NoToken}, ty \in {"bearer", "none"}, e \in BOOLEAN }
    \cup {NoResponse} \cup ErrorResponses

\* the frontend_uri values of a desktop-key answer: http, https, another
\* scheme, none
Origins ==
    { << "https://", "app.example" >>, << "http://", "app.example" >>,
      << "file://", "/etc" >>, << >> }

\* answers to GET auth/desktop-key
DesktopKeyResponses ==
    { [OkResp EXCEPT !.token = t, !.tokenType = ty, !.expires = TRUE,
                     !.origin = o] :
        t \in Tokens, ty \in {"desktop", "bearer"}, o \in Origins }
    \cup {NoResponse} \cup ErrorResponses

\* endpoints whose 2xx payload carries a token
TokenUrls == {<< "auth/login" >>, << "auth/refresh" >>, << "auth/desktop-key" >>}

\* 2xx answers of a status endpoint: the payload's data record holds a truthy
\* `cattr` field, a truthy `amazingtime` field, or neither
StatusResponses ==
    { [OkResp EXCEPT !.marker = m] : m \in {"cattr", "amazingtime", "none"} }

----------------------------------------------------------------------------
(* Outcomes *)

NoContext == [url |-> << >>, method |-> "none", payload |-> NoBody]

NoOutcome ==
    [state |-> "pending", success |-> FALSE, isNetworkError |-> FALSE,
     error |-> "none", response |-> NoResp, context |-> NoContext]

Success(r) ==
    [state |-> "resolved", success |-> TRUE, isNetworkError |-> FALSE,
     error |-> "none", response |-> r, context |-> NoContext]

CredentialsFailure ==
    [state |-> "resolved", success |-> FALSE, isNetworkError |-> FALSE,
     error |-> "CredentialsError", response |-> NoResp, context |-> NoContext]

Failure(isNet, e, ctx) ==
    [state |-> "resolved", success |-> FALSE, isNetworkError |-> isNet,
     error |-> "AxiosError", response |-> e, context |-> ctx]

\* the failure outcome whose error is an exception that this.axios(...)
\* raised before any request left
Caught(isNet, e, ctx) ==
    [Failure(isNet, e, ctx) EXCEPT !.error = "TypeError"]

Rejected(type) ==
    [state |-> "rejected", success |-> FALSE, isNetworkError |-> FALSE,
     error |-> type, response |-> NoResp, context |-> NoContext]

----------------------------------------------------------------------------
(* Operations built on the core *)

\* a parsed URL (new URL(...)): href is scheme, host and pathname
NoUrl == [scheme |-> "", host |-> "", path |-> << >>]

\* name of the operation, where it stands, its flag argument (relogin or
\* force), the URL it parsed and its string argument
NoOp ==
    [name |-> "none", phase |-> "none", flag |-> FALSE, url |-> NoUrl,
     arg |-> << >>]

RawOp ==
    [name |-> "raw", phase |-> "call", flag |-> FALSE, url |-> NoUrl,
     arg |-> << >>]

\* what an operation returned (value, token, url) or threw (error with its
\* statusCode, code, type and context); statusIsNumber tells whether
\* statusCode holds a number at all
NoResult ==
    [state |-> "none", value |-> "none", token |-> NoToken, url |-> << >>,
     error |-> "none", statusIsNumber |-> FALSE, statusCode |-> 0,
     code |-> "none", type |-> "none", context |-> NoContext]

Returned(v, t) == [NoResult EXCEPT !.state = "returned", !.value = v, !.token = t]

Thrown(type) == [NoResult EXCEPT !.state = "threw", !.error = type]

----------------------------------------------------------------------------
(* Helpers of get()/post() *)

NoArgs == [verb |-> "get", url |-> << "tasks/list" >>, body |-> NoBody, nullBody |-> FALSE]

\* shared tells whether the record is the object the application holds;
\* patch()/put() call post() with a fresh record { method, ...opts };
\* get()/post() work on the record they were given
EntryOpts(v, na, nr) ==
    [noAuth |-> na, noRelogin |-> nr,
     method |-> IF v \in {"put", "patch"} THEN v ELSE "none",
     authHeader |-> "none", shared |-> FALSE]

\* opts.headers.Authorization as the caller supplied it ("none": not supplied)
CallerHeaders == {"none", "custom"}

\* the options with headers: { Authorization: h }
WithHeaders(o, h) == [o EXCEPT !.authHeader = h]

\* method: 'get' in get(); (opts && opts.method) ? opts.method : 'post' in post()
Method(v, o) ==
    IF v = "get" THEN "get"
    ELSE IF o.method # "none" THEN o.method ELSE "post"

SensitiveWords == {"screenshot", "password", "secret", "token", "api_key"}

\* key.includes(str)
Includes(key, str) == \E i \in 1..Len(key) : key[i] = str

RedactNothing(body) == body

\* the payload of the context of post(): Object.fromEntries(
\* Object.entries(body).map(... .some(str => key.includes(str)) ? '***' : val))
Redact(body) ==
    [k \in DOMAIN body |->
        IF \E w \in SensitiveWords : Includes(k, w) THEN << "***" >> ELSE body[k]]

\* const context = { url, method } of get(), { url, payload, method } of post()
Context(a, o) ==
    [url |-> a.url, method |-> Method(a.verb, o),
     payload |-> IF a.verb = "get" THEN NoBody ELSE Redact(a.body)]

\* !token
TokenMissing(t) == t = NoToken

HasNoResponseNever(r) == FALSE

\* !err.response
HasNoResponse(r) == r.kind \in {"noResponse", "typeError"}

IsAuthErrorAny401(r) == r.status = 401

\* the negation of "Pass error if it isn't related to the authentication token"
IsAuthError(r) ==
    /\ r.status = 401
    /\ r.at = "code"
    /\ r.code \in {"authorization.unauthorized", "authorization.token_expired"}

RetryOptsUnchanged(o) == o

RetryOptsFresh(o) ==
    [noAuth |-> FALSE, noRelogin |-> TRUE, method |-> "none",
     authHeader |-> "none", shared |-> FALSE]

RetryOptsCopy(o) == [o EXCEPT !.noRelogin = TRUE, !.shared = FALSE]

\* Object.assign(opts || {}, { noRelogin: true }): the record it was given,
\* changed in place
RetryOpts(o) == [o EXCEPT !.noRelogin = TRUE]

AuthorizationCallerWins(o) ==
    IF o.authHeader # "none" THEN o.authHeader
    ELSE IF o.noAuth THEN "none" ELSE "Bearer"

\* the Authorization header: Object.assign(headers, opts.headers), then
\* headers.Authorization = `Bearer ${...}` unless noAuth
Authorization(o) == IF o.noAuth THEN o.authHeader ELSE "Bearer"

\* headers['X-Requested-With'] = `Cattr-Node/v${...}`: post() sets it, get()
\* does not
RequestedWith(a) == a.verb # "get"

\* the request handed to this.axios; authorization is the scheme of its
\* Authorization header and auth the token of a Bearer header (NoToken:
\* none); requestedWith tells whether it has the X-Requested-With header;
\* noRelogin is the value of that option in the invocation that built it
\* base is the baseURL of the transport instance the request is handed to
Request(a, o, t, b) ==
    [kind |-> "call", url |-> a.url, method |-> Method(a.verb, o),
     body |-> a.body, authorization |-> Authorization(o), auth |-> t,
     requestedWith |-> RequestedWith(a), noRelogin |-> o.noRelogin,
     base |-> b]

\* axiosConfiguration of a client no property was ever assigned to: it has
\* no baseURL
NoBaseUrl == << "(undefined)" >>

NoTransportNever(b) == FALSE

\* this.axios = null until the first assignment to axiosConfiguration
NoTransport(b) == b = NoBaseUrl

LoginBody == [k \in {<< "email" >>, << "password" >>} |-> Original(k)]

LoginOptsAuthenticated == EntryOpts("post", FALSE, FALSE)

\* the options login() passes to post(): { noAuth: true }
LoginOpts == EntryOpts("post", TRUE, FALSE)

\* the catch block of post() gets as far as `await this.reloginAutomatically()`
Reauthenticates(o, r) ==
    /\ ~o.noAuth
    /\ ~HasNoResponse(r)
    /\ IsAuthError(r)
    /\ ~o.noRelogin

\* $.post('auth/login', { email, password }, { noAuth: true })
LoginRequest ==
    [kind |-> "login", url |-> << "auth/login" >>, method |-> "post",
     body |-> LoginBody, authorization |-> Authorization(LoginOpts),
     auth |-> NoToken, requestedWith |-> TRUE,
     noRelogin |-> LoginOpts.noRelogin, base |-> baseUrl]

----------------------------------------------------------------------------
(* reloginAutomatically *)

\* a reloginAutomatically invocation: the site that awaits it, the number of
\* answers the call had received when it began, and what it did so far
NewRelogin(s, n) ==
    [site |-> s, after |-> n, result |-> "pending", loginSent |-> FALSE, login |-> NoResp,
     setCalls |-> 0, setArg |-> NoToken, setDone |-> FALSE]

Last(s) == s[Len(s)]

SetLast(s, e) == [s EXCEPT ![Len(s)] = e]

ProviderUsableAlways(cr) == TRUE

\* the guard on this.providers.credentials at the top of reloginAutomatically
ProviderUsable(cr) == cr # "unset"

\* !credentials
NoCredentials(cr) == cr = "empty"

\* this.providers.credentials.get() throws: the provider's get() rejects (or
\* there is no provider to call it on, which the guard above excludes)
GetThrows(cr) == cr \in {"unset", "rejects"}

\* login() throws a TypeError on an empty or non-string email or password
LoginArgsValid(cr) == cr = "valid"

\* login() returns (instead of throwing) on a 2xx answer it can read
LoginSucceeded(r) == r.kind = "ok" /\ r.token # NoToken

\* what happens where `await this.reloginAutomatically()` resumes:
\* s is the awaiting site, e the error caught there, v the result
ReloginReturns(c, s, e, v, log) ==
    /\ relog' = [relog EXCEPT ![c] = SetLast(log, [Last(log) EXCEPT !.result = v])]
    /\ site' = [site EXCEPT ![c] = "none"]
    /\ err' = [err EXCEPT ![c] = NoResp]
    /\ CASE v = "threw" ->
              /\ pc' = [pc EXCEPT ![c] = "done"]
              /\ outcome' = [outcome EXCEPT ![c] = Rejected("ProviderError")]
              /\ UNCHANGED << opts, depth >>
         [] v = "true" /\ s = "pre" ->
              /\ pc' = [pc EXCEPT ![c] = "readToken2"]
              /\ UNCHANGED << outcome, opts, depth >>
         [] v = "false" /\ s = "pre" ->
              /\ pc' = [pc EXCEPT ![c] = "done"]
              /\ outcome' = [outcome EXCEPT ![c] = CredentialsFailure]
              /\ UNCHANGED << opts, depth >>
         [] v = "true" /\ s = "post" ->
              /\ depth[c] < MaxDepth
              /\ pc' = [pc EXCEPT ![c] = "readToken1"]
              /\ opts' = [opts EXCEPT ![c] = RetryOpts(@)]
              /\ depth' = [depth EXCEPT ![c] = @ + 1]
              /\ UNCHANGED outcome
         [] v = "false" /\ s = "post" ->
              /\ pc' = [pc EXCEPT ![c] = "done"]
              /\ outcome' = [outcome EXCEPT ![c] =
                                Failure(FALSE, e, Context(args[c], opts[c]))]
              /\ UNCHANGED << opts, depth >>

\* `await this.reloginAutomatically()` up to its first await
BeginRelogin(c, s, e) ==
    LET log == Append(relog[c], NewRelogin(s, IF s = "post" THEN Len(answers[c]) + 1
                                                ELSE Len(answers[c]))) IN
    IF ~ProviderUsable(credentials)
    THEN ReloginReturns(c, s, e, "false", log)
    ELSE /\ relog' = [relog EXCEPT ![c] = log]
         /\ site' = [site EXCEPT ![c] = s]
         /\ err' = [err EXCEPT ![c] = e]
         /\ pc' = [pc EXCEPT ![c] = "credGet"]
         /\ UNCHANGED << outcome, opts, depth >>

\* const credentials = await this.providers.credentials.get(), then
\* login() up to the request it hands to the transport
CredGet(c) ==
    /\ pc[c] = "credGet"
    /\ IF GetThrows(credentials)
       THEN /\ ReloginReturns(c, site[c], err[c], "threw", relog[c])
            /\ UNCHANGED sent
       ELSE IF NoCredentials(credentials) \/ ~LoginArgsValid(credentials)
       THEN /\ ReloginReturns(c, site[c], err[c], "false", relog[c])
            /\ UNCHANGED sent
       \* the post() of login() catches the TypeError of this.axios(...) and
       \* login() throws a NetworkError
       ELSE IF NoTransport(baseUrl) /\ HasNoResponse(NotAFunction)
       THEN /\ ReloginReturns(c, site[c], err[c], "false", relog[c])
            /\ UNCHANGED sent
       ELSE /\ sent' = [sent EXCEPT ![c] = Append(@, LoginRequest)]
            /\ relog' = [relog EXCEPT ![c] =
                            SetLast(@, [Last(@) EXCEPT !.loginSent = TRUE])]
            /\ pc' = [pc EXCEPT ![c] = "awaitLogin"]
            /\ UNCHANGED << site, err, outcome, opts, depth >>
    /\ UNCHANGED << tokenStore, credentials, args, authRes, token, answers >>
    /\ UNCHANGED upper

\* the answer to POST auth/login: login() returns or throws, and on return
\* this.providers.token.set(...) is called
LoginRespond(c, r) ==
    /\ pc[c] = "awaitLogin"
    /\ r \in LoginResponses
    /\ IF LoginSucceeded(r)
       THEN /\ authRes' = [authRes EXCEPT ![c] = r.token]
            /\ relog' = [relog EXCEPT ![c] =
                            SetLast(@, [Last(@) EXCEPT !.login = r,
                                                       !.setCalls = @ + 1,
                                                       !.setArg = r.token])]
            /\ pc' = [pc EXCEPT ![c] = "tokenSet"]
            /\ UNCHANGED << site, err, outcome, opts, depth >>
       \* the catch block of the post() that login() awaits
       ELSE IF Reauthenticates(LoginOpts, r)
       THEN /\ BeginRelogin(c, site[c], err[c])
            /\ UNCHANGED authRes
       ELSE /\ ReloginReturns(c, site[c], err[c], "false",
                              SetLast(relog[c], [Last(relog[c]) EXCEPT !.login = r]))
            /\ UNCHANGED authRes
    /\ UNCHANGED << tokenStore, credentials, args, sent, token, answers >>
    /\ UNCHANGED upper

TokenSetResultAlwaysTrue(ok) == "true"

\* return true after the awaited set(); the catch block returns false
TokenSetResult(ok) == IF ok THEN "true" ELSE "false"

\* await this.providers.token.set(...) resolves (ok) or rejects
TokenSet(c, ok) ==
    /\ pc[c] = "tokenSet"
    /\ tokenStore' = IF ok THEN authRes[c] ELSE tokenStore
    /\ authRes' = [authRes EXCEPT ![c] = NoToken]
    /\ ReloginReturns(c, site[c], err[c], TokenSetResult(ok),
                      SetLast(relog[c], [Last(relog[c]) EXCEPT !.setDone = ok]))
    /\ UNCHANGED << credentials, args, sent, token, answers >>
    /\ UNCHANGED upper

----------------------------------------------------------------------------
(* get / post / put / patch *)

SkipsAuthenticationNever(o) == FALSE

\* the negation of !opts || !opts.noAuth
SkipsAuthentication(o) == o.noAuth

\* get(url, opts), post(url, body, opts), put(...), patch(...) up to the
\* first await: with noAuth the request is handed to the transport at once
\* a fresh invocation with arguments a and options o
\* b is the base URL in force when the invocation begins
StartAt(c, a, o, b) ==
    /\ args' = [args EXCEPT ![c] = a]
    /\ opts' = [opts EXCEPT ![c] = o]
    /\ depth' = [depth EXCEPT ![c] = 0]
    /\ relog' = [relog EXCEPT ![c] = << >>]
    /\ token' = [token EXCEPT ![c] = NoToken]
    /\ answers' = [answers EXCEPT ![c] = << >>]
    /\ IF SkipsAuthentication(o) /\ NoTransport(b)
       THEN /\ sent' = [sent EXCEPT ![c] = << >>]
            /\ pc' = [pc EXCEPT ![c] = "done"]
            /\ outcome' = [outcome EXCEPT ![c] =
                               Caught(HasNoResponse(NotAFunction), NotAFunction,
                                      Context(a, o))]
       ELSE IF SkipsAuthentication(o)
       THEN /\ sent' = [sent EXCEPT ![c] = << Request(a, o, NoToken, b) >>]
            /\ pc' = [pc EXCEPT ![c] = "awaitResp"]
            /\ outcome' = [outcome EXCEPT ![c] = NoOutcome]
       ELSE /\ sent' = [sent EXCEPT ![c] = << >>]
            /\ pc' = [pc EXCEPT ![c] = "readToken1"]
            /\ outcome' = [outcome EXCEPT ![c] = NoOutcome]
    /\ UNCHANGED << tokenStore, credentials, site, err, authRes >>

Start(c, a, o) == StartAt(c, a, o, baseUrl)

Invoke(c, v, u, b, na, nr, h) ==
    /\ pc[c] = "idle"
    /\ v \in Verbs /\ u \in Urls /\ na \in BOOLEAN /\ nr \in BOOLEAN
    /\ b \in (IF v = "get" THEN {NoBody} ELSE Bodies)
    /\ h \in CallerHeaders
    /\ Start(c, [verb |-> v, url |-> u, body |-> b, nullBody |-> FALSE],
             WithHeaders(EntryOpts(v, na, nr), h))

\* no operation is running anywhere: one operation at a time
AllIdle == \A d \in Calls : pc[d] = "idle" /\ op[d] = NoOp

\* a direct call of get / post / put / patch
Call(c) ==
    /\ AllIdle
    /\ \E v \in Verbs, u \in Urls, b \in Bodies, na \in BOOLEAN, nr \in BOOLEAN,
          h \in CallerHeaders :
          Invoke(c, v, u, b, na, nr, h)
    /\ op' = [op EXCEPT ![c] = RawOp]
    /\ UNCHANGED << trace, result, baseUrl >>
    /\ UNCHANGED aside

\* const token = await this.providers.token.get(), and the
\* "Renewing token if it isn't available in provider" block
ReadToken1(c) ==
    /\ pc[c] = "readToken1"
    /\ IF ~TokenMissing(tokenStore)
       THEN /\ pc' = [pc EXCEPT ![c] = "readToken2"]
            /\ UNCHANGED << site, err, outcome, opts, depth, relog >>
       ELSE IF opts[c].noRelogin
       THEN /\ pc' = [pc EXCEPT ![c] = "done"]
            /\ outcome' = [outcome EXCEPT ![c] = CredentialsFailure]
            /\ UNCHANGED << site, err, opts, depth, relog >>
       ELSE BeginRelogin(c, "pre", NoResp)
    /\ token' = [token EXCEPT ![c] = tokenStore]
    /\ UNCHANGED << tokenStore, credentials, args, authRes, sent, answers >>
    /\ UNCHANGED upper

\* headers.Authorization = `Bearer ${(await this.providers.token.get()).token}`
\* and this.axios({ method, url, headers, ... })
ReadToken2(c) ==
    /\ pc[c] = "readToken2"
    /\ IF TokenMissing(tokenStore)
       THEN /\ pc' = [pc EXCEPT ![c] = "done"]
            /\ outcome' = [outcome EXCEPT ![c] = Rejected("TypeError")]
            /\ UNCHANGED sent
       \* this.axios is null: the catch block gets the TypeError
       ELSE IF NoTransport(baseUrl)
       THEN /\ pc' = [pc EXCEPT ![c] = "done"]
            /\ outcome' = [outcome EXCEPT ![c] =
                               Caught(HasNoResponse(NotAFunction), NotAFunction,
                                      Context(args[c], opts[c]))]
            /\ UNCHANGED sent
       ELSE /\ sent' = [sent EXCEPT ![c] =
                           Append(@, Request(args[c], opts[c], tokenStore, baseUrl))]
            /\ pc' = [pc EXCEPT ![c] = "awaitResp"]
            /\ UNCHANGED outcome
    /\ UNCHANGED << tokenStore, credentials, args, opts, site, err, authRes,
                    depth, relog, token, answers >>
    /\ UNCHANGED upper

\* the payloads the backend serves under the url of a request
AnswersTo(q) ==
    IF q.url[Len(q.url)] = "status"
    THEN StatusResponses \cup {NoResponse} \cup ErrorResponses
    ELSE IF q.url = << "auth/refresh" >> THEN RefreshResponses
    ELSE IF q.url = << "auth/desktop-key" >> /\ q.method = "get"
    THEN DesktopKeyResponses
    ELSE IF q.url \in TokenUrls THEN LoginResponses
    ELSE Responses \cup ShapedErrorResponses

\* the transport answers: return { success: true, ... } or the catch block
Respond(c, r) ==
    /\ pc[c] = "awaitResp"
    /\ r \in AnswersTo(Last(sent[c]))
    /\ LET ctx == Context(args[c], opts[c])
           fail(isNet) ==
               /\ pc' = [pc EXCEPT ![c] = "done"]
               /\ outcome' = [outcome EXCEPT ![c] = Failure(isNet, r, ctx)]
               /\ UNCHANGED << site, err, opts, depth, relog >>
       IN IF r.kind = "ok"
          THEN /\ pc' = [pc EXCEPT ![c] = "done"]
               /\ outcome' = [outcome EXCEPT ![c] = Success(r)]
               /\ UNCHANGED << site, err, opts, depth, relog >>
          \* Object.entries(body) of the catch block of post(), body null
          ELSE IF args[c].verb # "get" /\ args[c].nullBody
          THEN /\ pc' = [pc EXCEPT ![c] = "done"]
               /\ outcome' = [outcome EXCEPT ![c] = Rejected("TypeError")]
               /\ UNCHANGED << site, err, opts, depth, relog >>
          ELSE IF opts[c].noAuth THEN fail(HasNoResponse(r))
          ELSE IF HasNoResponse(r) THEN fail(TRUE)
          ELSE IF ~IsAuthError(r) THEN fail(FALSE)
          ELSE IF opts[c].noRelogin THEN fail(FALSE)
          ELSE BeginRelogin(c, "post", r)
    /\ answers' = [answers EXCEPT ![c] = Append(@, r)]
    /\ UNCHANGED << tokenStore, credentials, args, authRes, sent, token >>
    /\ UNCHANGED upper

\* the caller takes the outcome; the call slot is free again
Return(c) ==
    /\ \/ op[c].name = "raw" /\ pc[c] = "done"
       \/ op[c].phase = "finished"
    /\ pc' = [pc EXCEPT ![c] = "idle"]
    /\ op' = [op EXCEPT ![c] = NoOp]
    /\ trace' = [trace EXCEPT ![c] = << >>]
    /\ result' = [result EXCEPT ![c] = NoResult]
    /\ args' = [args EXCEPT ![c] = NoArgs]
    /\ opts' = [opts EXCEPT ![c] = EntryOpts("get", FALSE, FALSE)]
    /\ depth' = [depth EXCEPT ![c] = 0]
    /\ sent' = [sent EXCEPT ![c] = << >>]
    /\ outcome' = [outcome EXCEPT ![c] = NoOutcome]
    /\ relog' = [relog EXCEPT ![c] = << >>]
    /\ token' = [token EXCEPT ![c] = NoToken]
    /\ answers' = [answers EXCEPT ![c] = << >>]
    /\ UNCHANGED << tokenStore, credentials, site, err, authRes, baseUrl >>
    \* a record changed in place stays changed in the application's hands
    /\ held' = IF opts[c].shared THEN [opts[c] EXCEPT !.shared = FALSE] ELSE held
    /\ UNCHANGED << entity, revoked >>

\* the embedding application drops the stored token (its own logout, an
\* expiry sweep): the provider's storage is not owned by the core
ClearToken ==
    /\ tokenStore # NoToken
    /\ tokenStore' = NoToken
    /\ UNCHANGED << credentials, pc, args, opts, site, err, authRes, depth,
                    sent, outcome, relog, token, answers >>
    /\ UNCHANGED upper

----------------------------------------------------------------------------
(* Specification *)

\* the base URL an earlier setBaseUrl configured
ConfiguredBase == << "https://", "cattr.example", "/", "api" >>

InitCore ==
    /\ tokenStore \in Tokens \cup {NoToken}
    /\ credentials \in CredentialsBehaviours
    /\ pc = [c \in Calls |-> "idle"]
    /\ op = [c \in Calls |-> NoOp]
    /\ trace = [c \in Calls |-> << >>]
    /\ result = [c \in Calls |-> NoResult]
    /\ entity = [c \in Calls |-> << >>]
    /\ held = EntryOpts("get", FALSE, FALSE)
    /\ revoked = {}
    /\ args = [c \in Calls |-> NoArgs]
    /\ opts = [c \in Calls |-> EntryOpts("get", FALSE, FALSE)]
    /\ site = [c \in Calls |-> "none"]
    /\ err = [c \in Calls |-> NoResp]
    /\ token = [c \in Calls |-> NoToken]
    /\ answers = [c \in Calls |-> << >>]
    /\ authRes = [c \in Calls |-> NoToken]
    /\ depth = [c \in Calls |-> 0]
    /\ sent = [c \in Calls |-> << >>]
    /\ outcome = [c \in Calls |-> NoOutcome]
    /\ relog = [c \in Calls |-> << >>]

Init ==
    /\ InitCore
    /\ baseUrl = ConfiguredBase

Next ==
    \/ \E c \in Calls : Call(c)
    \/ \E c \in Calls : ReadToken1(c)
    \/ \E c \in Calls : CredGet(c)
    \/ \E c \in Calls, r \in LoginResponses : LoginRespond(c, r)
    \/ \E c \in Calls, ok \in BOOLEAN : TokenSet(c, ok)
    \/ \E c \in Calls : ReadToken2(c)
    \/ \E c \in Calls, r \in Responses : Respond(c, r)
    \/ \E c \in Calls : Return(c)
    \/ ClearToken

Spec == Init /\ [][Next]_vars

\* every transport request and every provider get()/set() eventually returns,
\* and a call that can continue does
Returns(c) ==
    /\ WF_vars(ReadToken1(c))
    /\ WF_vars(CredGet(c))
    /\ WF_vars(\E r \in LoginResponses : LoginRespond(c, r))
    /\ WF_vars(\E ok \in BOOLEAN : TokenSet(c, ok))
    /\ WF_vars(ReadToken2(c))
    /\ WF_vars(\E r \in Responses : Respond(c, r))

SpecLive == Spec /\ \A c \in Calls : Returns(c)

----------------------------------------------------------------------------
(* Error classes *)

\* two generations of the error classes are in the tree: ApiError(status,
\* type, message) next to ApiError(res), NetworkError without and with a
\* context; a thrown error is built by either
Generations == {"old", "new"}

\* res.error.response.status: the status of the server's answer, or the
\* status CredentialsError stores in the response it imitates
ErrStatus(res) ==
    IF res.error = "CredentialsError" THEN 401 ELSE res.response.status

\* res.error.response?.data?.error?.code ?? 'unknown error code'
ErrCode(res) ==
    IF res.error = "AxiosError" /\ res.response.at = "error.code"
    THEN res.response.code ELSE "unknown error code"

\* res.error.response.data.error_type || 'unknown'; the response an older
\* CredentialsError imitates has an error_type, that of a newer one a code
ErrType(g, res) ==
    IF res.error = "CredentialsError"
    THEN IF g = "old" THEN "authorization.unauthorized" ELSE "unknown"
    ELSE IF res.response.at = "error_type" THEN res.response.code ELSE "unknown"

\* new ApiError(x) with one record x.  ApiError(status, type, message) takes
\* the record for the status; ApiError(res) reads res.error.response and
\* res.context and throws a TypeError when x has no error field
ApiErrorOfRecord(g, res) ==
    IF g = "old" THEN Thrown("ApiError")
    ELSE IF res.error = "none" THEN Thrown("TypeError")
    ELSE [Thrown("ApiError") EXCEPT !.statusIsNumber = TRUE,
                                    !.statusCode = ErrStatus(res),
                                    !.code = ErrCode(res),
                                    !.context = res.context]

\* new ApiError(status, type, message).  ApiError(res) reads
\* status.error.response of the number it was given and throws a TypeError
ApiErrorOfArgs(g, status, type) ==
    IF g = "old"
    THEN [Thrown("ApiError") EXCEPT !.statusIsNumber = TRUE,
                                    !.statusCode = status, !.type = type]
    ELSE Thrown("TypeError")

\* new NetworkError(res)
NetworkErrorOf(g, res) ==
    [Thrown("NetworkError") EXCEPT
        !.context = IF g = "new" THEN res.context ELSE NoContext]

\* authentication.js: if (res.isNetworkError) throw new $.NetworkError(res);
\* if (res.error instanceof $.ApiError) throw res.error (the core never puts
\* an ApiError into an outcome); throw new $.ApiError(res)
AuthTranslate(g, res) ==
    IF res.isNetworkError THEN NetworkErrorOf(g, res) ELSE ApiErrorOfRecord(g, res)

\* resources: if (res.isNetworkError) throw new NetworkError(res);
\* throw new ApiError(res.error.response.status, ...)
ResourceTranslate(g, res) ==
    IF res.isNetworkError THEN NetworkErrorOf(g, res)
    ELSE ApiErrorOfArgs(g, ErrStatus(res), ErrType(g, res))

----------------------------------------------------------------------------
(* Authentication and resource operations *)

AuthOps ==
    {"login", "refresh", "authenticateViaSSO", "me", "logout",
     "getSingleClickRedirection"}

ResourceOps == {"tasks.list"}

OpNames == AuthOps \cup ResourceOps

\* operations with a Boolean parameter: refresh(relogin), logout(fromAll)
Flagged == {"refresh", "logout"}

\* what a caller may pass for a string parameter, for a filter parameter
StringKinds == {"string", "empty", "other"}

FilterKinds == {"object", "absent", "other"}

\* the arguments of each operation: (email, password), (token), (opts)
OpInputs(name) ==
    CASE name = "login" -> StringKinds \X StringKinds
      [] name = "authenticateViaSSO" -> { << k >> : k \in StringKinds }
      [] name = "tasks.list" -> { << k >> : k \in FilterKinds }
      [] OTHER -> { << >> }

ValidArgsAlways(name, a) == TRUE

\* typeof x !== 'string' || x.length === 0 of login and authenticateViaSSO;
\* opts && typeof opts !== 'object' of tasks.list
ValidArgs(name, a) ==
    CASE name \in {"login", "authenticateViaSSO"} ->
            \A i \in 1..Len(a) : a[i] = "string"
      [] name = "tasks.list" -> a[1] # "other"
      [] OTHER -> TRUE

\* the core call of each operation
OpArgs(name, flag) ==
    CASE name = "login" ->
            [verb |-> "post", url |-> << "auth/login" >>, body |-> LoginBody, nullBody |-> FALSE]
      [] name = "refresh" ->
            [verb |-> "post", url |-> << "auth/refresh" >>, body |-> NoBody, nullBody |-> FALSE]
      [] name = "authenticateViaSSO" ->
            [verb |-> "put", url |-> << "auth/desktop-key" >>, body |-> NoBody, nullBody |-> FALSE]
      [] name = "me" ->
            [verb |-> "get", url |-> << "auth/me" >>, body |-> NoBody, nullBody |-> FALSE]
      [] name = "logout" ->
            [verb |-> "post",
             url |-> IF flag THEN << "auth/logout-from-all" >>
                     ELSE << "auth/logout" >>,
             body |-> NoBody, nullBody |-> FALSE]
      [] name = "getSingleClickRedirection" ->
            [verb |-> "get", url |-> << "auth/desktop-key" >>, body |-> NoBody, nullBody |-> FALSE]
      [] name = "tasks.list" ->
            [verb |-> "post", url |-> << "tasks/list" >>, body |-> NoBody, nullBody |-> FALSE]

OpOptsAllAuthenticated(name, flag) ==
    EntryOpts(OpArgs(name, flag).verb, FALSE, FALSE)

OpOptsReloginAllowed(name, flag) ==
    EntryOpts(OpArgs(name, flag).verb,
              name \in {"login", "authenticateViaSSO"}, FALSE)

\* { noAuth: true } of login and authenticateViaSSO, { noRelogin: !relogin }
\* of refresh, { noRelogin: true } of logout, {} of me and
\* getSingleClickRedirection, { noPaginate: true } of tasks.list
OpOpts(name, flag) ==
    CASE name = "login" -> EntryOpts("post", TRUE, FALSE)
      [] name = "authenticateViaSSO" ->
            \* { noAuth: true, headers: { Authorization: `desktop ${token}` } }
            WithHeaders(EntryOpts("put", TRUE, FALSE), "desktop")
      [] name = "refresh" -> EntryOpts("post", FALSE, ~flag)
      [] name = "logout" -> EntryOpts("post", FALSE, TRUE)
      [] OTHER -> EntryOpts(OpArgs(name, flag).verb, FALSE, FALSE)

\* typeof access_token, token_type and expires_in === 'string'
WellFormedToken(r) == r.token # NoToken /\ r.tokenType # "none" /\ r.expires

AllowedProtocolAny(origin) == TRUE

\* [ 'http:', 'https:' ].includes(originParsed.protocol)
AllowedProtocol(origin) == origin[1] \in {"http://", "https://"}

\* `${origin}/auth/desktop/login?token=${token}`
RedirectionUrl(origin) == origin \o << "/auth/desktop/login?token=" >>

\* getSingleClickRedirection after a 2xx answer r
Redirection(r) ==
    IF r.tokenType # "desktop" THEN Thrown("Error")
    \* new URL(origin) of an answer without frontend_uri
    ELSE IF r.origin = << >> THEN Thrown("TypeError")
    ELSE IF ~AllowedProtocol(r.origin) THEN Thrown("Error")
    ELSE [Returned("url", r.token) EXCEPT !.url = RedirectionUrl(r.origin)]

\* what the operation makes of the outcome of its call
OpResult(name, g, res) ==
    IF res.state = "rejected" THEN Thrown(res.error)
    ELSE IF ~res.success
    THEN IF name \in ResourceOps THEN ResourceTranslate(g, res)
         ELSE AuthTranslate(g, res)
    ELSE CASE name \in {"login", "authenticateViaSSO"} ->
                \* userFormatter(res.response.data.user) of a payload
                \* without a user record
                IF res.response.token = NoToken THEN Thrown("TypeError")
                ELSE Returned("session", res.response.token)
           [] name = "refresh" ->
                IF ~WellFormedToken(res.response)
                THEN ApiErrorOfArgs(g, 0, "unexpected_structure")
                ELSE Returned("token", res.response.token)
           [] name = "me" -> Returned("user", NoToken)
           [] name = "logout" -> Returned("true", NoToken)
           [] name = "getSingleClickRedirection" -> Redirection(res.response)
           [] name = "tasks.list" -> Returned("list", NoToken)

\* the core call an operation has just awaited
Summary(c) == [sent |-> sent[c], outcome |-> outcome[c]]

\* the operation is called: it checks its arguments and issues its call
OpStart(c, name, flag, a) ==
    /\ AllIdle
    /\ name \in OpNames
    /\ flag => name \in Flagged
    /\ a \in OpInputs(name)
    /\ IF ValidArgs(name, a)
       THEN /\ Start(c, OpArgs(name, flag), OpOpts(name, flag))
            /\ op' = [op EXCEPT ![c] = [name |-> name, phase |-> "call",
                                        flag |-> flag, url |-> NoUrl,
                                        arg |-> a]]
            /\ UNCHANGED << trace, result, baseUrl >>
       ELSE /\ op' = [op EXCEPT ![c] = [name |-> name, phase |-> "finished",
                                        flag |-> flag, url |-> NoUrl,
                                        arg |-> a]]
            /\ result' = [result EXCEPT ![c] = Thrown("TypeError")]
            /\ UNCHANGED << core, trace, baseUrl >>
    /\ UNCHANGED aside

\* what a successful POST auth/logout did at the backend: the token the
\* request carried is no longer accepted
LoggedOut(name, res, reqs) ==
    IF name = "logout" /\ res.state = "resolved" /\ res.success
    THEN {reqs[Len(reqs)].auth} \ {NoToken}
    ELSE {}

\* the call settled: the operation returns or throws
Settle(c, g) ==
    /\ pc[c] = "done"
    /\ op[c].name \in OpNames /\ op[c].phase = "call"
    /\ result' = [result EXCEPT ![c] = OpResult(op[c].name, g, outcome[c])]
    /\ trace' = [trace EXCEPT ![c] = Append(@, Summary(c))]
    /\ op' = [op EXCEPT ![c].phase = "finished"]
    /\ UNCHANGED << core, baseUrl >>

OpDone(c, g) ==
    /\ Settle(c, g)
    /\ UNCHANGED aside

\* the same, with the backend's side of a logout kept track of
SessionDone(c, g) ==
    /\ Settle(c, g)
    /\ revoked' = revoked \cup LoggedOut(op[c].name, outcome[c], sent[c])
    /\ UNCHANGED << entity, held >>

\* every argument the model passes to an operation
AllInputs == UNION { OpInputs(name) : name \in OpNames }

AllResponses ==
    Responses \cup ShapedErrorResponses \cup LoginResponses
        \cup RefreshResponses \cup DesktopKeyResponses \cup StatusResponses

\* the request core, whoever issued the call
CoreNext ==
    \/ \E c \in Calls : ReadToken1(c)
    \/ \E c \in Calls : CredGet(c)
    \/ \E c \in Calls, r \in LoginResponses : LoginRespond(c, r)
    \/ \E c \in Calls, ok \in BOOLEAN : TokenSet(c, ok)
    \/ \E c \in Calls : ReadToken2(c)
    \/ \E c \in Calls, r \in AllResponses : Respond(c, r)
    \/ \E c \in Calls : Return(c)
    \/ ClearToken

NextOps ==
    \/ \E c \in Calls, name \in OpNames, flag \in BOOLEAN, a \in AllInputs :
          OpStart(c, name, flag, a)
    \/ \E c \in Calls, g \in Generations : OpDone(c, g)
    \/ CoreNext

SpecOps == Init /\ [][NextOps]_vars

----------------------------------------------------------------------------
(* setBaseUrl and isCattrInstance *)

\* a string is the sequence of its pieces; "/" is always a piece of its own
Schemes == {"https://", "http://"}

\* the urlString arguments: without and with a scheme, with a path, empty
UrlInputs ==
    { << "example.com" >>,
      << "https://", "example.com" >>,
      << "http://", "example.com", "/" >>,
      << "example.com", "/", "cattr", "/" >>,
      << >> }

\* urlString.indexOf('://') === -1
LacksScheme(s) == \A i \in 1..Len(s) : s[i] \notin Schemes

NormalizeToHttp(s) == IF LacksScheme(s) THEN << "http://" >> \o s ELSE s

\* if (urlString.indexOf('://') === -1) urlString = `https://${urlString}`
Normalize(s) == IF LacksScheme(s) THEN << "https://" >> \o s ELSE s

\* new URL(urlString) throws a TypeError for a string without a host
ValidUrl(s) == Len(s) >= 2 /\ s[1] \in Schemes

\* new URL(urlString): an empty path is the path "/"
ParseUrl(s) ==
    [scheme |-> s[1], host |-> s[2],
     path |-> IF Len(s) > 2 THEN SubSeq(s, 3, Len(s)) ELSE << "/" >>]

\* url.href
Href(u) == << u.scheme, u.host >> \o u.path

WithApiAndSlash(u) == [u EXCEPT !.path = @ \o << "api", "/" >>]

\* url.pathname += 'api'
WithApi(u) == [u EXCEPT !.path = @ \o << "api" >>]

\* this.axiosConfiguration.baseURL = ''
EmptyBase == << >>

DuringProbeKept(b) == b

\* this.axiosConfiguration.baseURL = '' at the top of checkStatusUrl: the
\* base in force while a probe is awaited, b being the base before it
DuringProbe(b) == EmptyBase

\* this.get(`${baseUrl}status`, { timeout: 5000, noAuth: true })
ProbeArgs(base) == [verb |-> "get", url |-> base \o << "status" >>, body |-> NoBody, nullBody |-> FALSE]

ProbeOpts == EntryOpts("get", TRUE, FALSE)

\* typeof res.response?.data === 'object' && res.response.data.cattr
CattrExistsOnHostname(res) == res.success /\ res.response.marker = "cattr"

\* res.success && (res.response.data.amazingtime || res.response.data.cattr)
IsInstance(res) == res.success /\ res.response.marker \in {"amazingtime", "cattr"}

AcceptedIgnoringForce(force, res) == CattrExistsOnHostname(res)

\* force || cattrExistsOnHostname(res)
Accepted(force, res) == force \/ CattrExistsOnHostname(res)

\* the record { statusCode: 404, message, context: res.context } given to
\* new this.ApiError: it has no error field
NotFound(ctx) == [NoOutcome EXCEPT !.context = ctx]

\* the operation of c ends with result r
Finish(c, r) ==
    /\ result' = [result EXCEPT ![c] = r]
    /\ op' = [op EXCEPT ![c].phase = "finished"]
    /\ UNCHANGED core

\* setBaseUrl(urlString, force) up to the first await: the root probe
BeginSetBaseUrl(c, s, force) ==
    /\ s \in UrlInputs
    /\ IF ValidUrl(Normalize(s))
       THEN LET u == ParseUrl(Normalize(s))
            IN /\ baseUrl' = DuringProbe(baseUrl)
               /\ StartAt(c, ProbeArgs(Href(u)), ProbeOpts, DuringProbe(baseUrl))
               /\ op' = [op EXCEPT ![c] = [name |-> "setBaseUrl", phase |-> "root",
                                           flag |-> force, url |-> u,
                                           arg |-> s]]
               /\ UNCHANGED << trace, result >>
       ELSE /\ op' = [op EXCEPT ![c] = [name |-> "setBaseUrl", phase |-> "finished",
                                        flag |-> force, url |-> NoUrl,
                                        arg |-> s]]
            /\ result' = [result EXCEPT ![c] = Thrown("TypeError")]
            /\ UNCHANGED << core, trace, baseUrl >>
    /\ UNCHANGED aside

\* setBaseUrl called while nothing else runs
SetBaseUrl(c, s, force) == AllIdle /\ BeginSetBaseUrl(c, s, force)

\* the root probe settled: accept the root or probe the root with api/
RootProbed(c) ==
    /\ pc[c] = "done"
    /\ op[c].name = "setBaseUrl" /\ op[c].phase = "root"
    /\ trace' = [trace EXCEPT ![c] = Append(@, Summary(c))]
    /\ LET res == outcome[c]
           u == op[c].url
       IN IF res.state = "rejected"
          THEN Finish(c, Thrown(res.error)) /\ UNCHANGED baseUrl
          ELSE IF Accepted(op[c].flag, res)
          THEN /\ baseUrl' = Href(u)
               /\ Finish(c, Returned("success", NoToken))
          ELSE /\ baseUrl' = DuringProbe(baseUrl)
               /\ StartAt(c, ProbeArgs(Href(u) \o << "api", "/" >>), ProbeOpts,
                          DuringProbe(baseUrl))
               /\ op' = [op EXCEPT ![c].phase = "api"]
               /\ UNCHANGED result
    /\ UNCHANGED aside

\* the api/ probe settled: accept the root with the api suffix, or throw
ApiProbed(c, g) ==
    /\ pc[c] = "done"
    /\ op[c].name = "setBaseUrl" /\ op[c].phase = "api"
    /\ trace' = [trace EXCEPT ![c] = Append(@, Summary(c))]
    /\ LET res == outcome[c]
           u == op[c].url
       IN IF res.state = "rejected"
          THEN Finish(c, Thrown(res.error)) /\ UNCHANGED baseUrl
          ELSE IF ~res.success
          THEN Finish(c, AuthTranslate(g, res)) /\ UNCHANGED baseUrl
          ELSE IF CattrExistsOnHostname(res)
          THEN /\ baseUrl' = Href(WithApi(u))
               /\ Finish(c, Returned("success", NoToken))
          ELSE Finish(c, ApiErrorOfRecord(g, NotFound(res.context)))
                  /\ UNCHANGED baseUrl
    /\ UNCHANGED aside

\* isCattrInstance() up to the await
IsCattrInstance(c) ==
    /\ AllIdle
    /\ Start(c, [verb |-> "get", url |-> << "/", "status" >>, body |-> NoBody, nullBody |-> FALSE],
             EntryOpts("get", TRUE, FALSE))
    /\ op' = [op EXCEPT ![c] = [name |-> "isCattrInstance", phase |-> "call",
                                flag |-> FALSE, url |-> NoUrl, arg |-> << >>]]
    /\ UNCHANGED << trace, result, baseUrl >>
    /\ UNCHANGED aside

\* isCattrInstance() after the await
InstanceChecked(c) ==
    /\ pc[c] = "done"
    /\ op[c].name = "isCattrInstance" /\ op[c].phase = "call"
    /\ trace' = [trace EXCEPT ![c] = Append(@, Summary(c))]
    /\ IF outcome[c].state = "rejected"
       THEN Finish(c, Thrown(outcome[c].error))
       ELSE Finish(c, Returned(IF IsInstance(outcome[c]) THEN "true" ELSE "false",
                               NoToken))
    /\ UNCHANGED baseUrl
    /\ UNCHANGED aside

\* no base URL yet, or one an earlier setBaseUrl configured
InitUrl ==
    /\ InitCore
    /\ baseUrl \in {EmptyBase, ConfiguredBase}

NextUrl ==
    \/ \E c \in Calls, s \in UrlInputs, force \in BOOLEAN : SetBaseUrl(c, s, force)
    \/ \E c \in Calls : RootProbed(c)
    \/ \E c \in Calls, g \in Generations : ApiProbed(c, g)
    \/ \E c \in Calls : IsCattrInstance(c)
    \/ \E c \in Calls : InstanceChecked(c)
    \/ \E c \in Calls, r \in AllResponses : Respond(c, r)
    \/ \E c \in Calls : Return(c)

SpecUrl == InitUrl /\ [][NextUrl]_vars

----------------------------------------------------------------------------
(* Argument validation of get / post / put / patch *)

\* what a caller may pass: for url a string or something else; for body a
\* record, null, or something that is no object (a string, a number,
\* nothing); for opts.method nothing, a supported method, or another one
UrlKinds == {"string", "other"}

BodyKinds == {"record", "null", "other"}

MethodOpts == {"none", "post", "put", "patch", "delete"}

\* { method: 'put', ...opts }: a method of the caller's opts replaces the
\* one put()/patch() chose
WithMethod(o, m) == IF m = "none" THEN o ELSE [o EXCEPT !.method = m]

\* typeof url !== 'string'; typeof body !== 'object' (typeof null is
\* 'object'); opts.method && [ 'post', 'put', 'patch' ].indexOf(...) === -1
ArgumentsPass(v, uk, bk, o) ==
    /\ uk = "string"
    /\ v # "get" =>
          /\ bk \in {"record", "null"}
          /\ o.method \in {"none", "post", "put", "patch"}

\* a direct call of get / post / put / patch with arguments of any kind
CallWith(c, v, uk, bk, m, na, nr) ==
    /\ AllIdle
    /\ v = "get" => (bk = "other" /\ m = "none")
    /\ LET o == WithMethod(EntryOpts(v, na, nr), m)
           a == [verb |-> v,
                 url |-> IF uk = "string" THEN << "tasks/list" >> ELSE << >>,
                 body |-> IF bk = "record" THEN [k \in FieldNames |-> Original(k)]
                          ELSE NoBody,
                 nullBody |-> (bk = "null")]
       IN IF ArgumentsPass(v, uk, bk, o)
          THEN Start(c, a, o)
          ELSE /\ args' = [args EXCEPT ![c] = a]
               /\ opts' = [opts EXCEPT ![c] = o]
               /\ pc' = [pc EXCEPT ![c] = "done"]
               /\ outcome' = [outcome EXCEPT ![c] = Rejected("TypeError")]
               /\ sent' = [sent EXCEPT ![c] = << >>]
               /\ relog' = [relog EXCEPT ![c] = << >>]
               /\ answers' = [answers EXCEPT ![c] = << >>]
               /\ UNCHANGED << tokenStore, credentials, site, err, authRes,
                               token, depth >>
    /\ op' = [op EXCEPT ![c] = [RawOp EXCEPT !.arg = << uk, bk, m >>]]
    /\ UNCHANGED << trace, result, baseUrl >>
    /\ UNCHANGED aside

NextArgs ==
    \/ \E c \in Calls, v \in Verbs, uk \in UrlKinds, bk \in BodyKinds,
          m \in MethodOpts, na \in BOOLEAN, nr \in BOOLEAN :
          CallWith(c, v, uk, bk, m, na, nr)
    \/ CoreNext

SpecArgs == Init /\ [][NextArgs]_vars

----------------------------------------------------------------------------
(* Concurrent calls *)

\* the calls two callers have in flight at once
ConcVerbs == {"get", "post"}

ConcUrl == << "tasks/list" >>

\* get(url) / post(url, {}) called while another call may be awaiting: the
\* client keeps no in-flight state, nothing serialises the calls
ConcCall(c) ==
    /\ op[c] = NoOp
    /\ \E v \in ConcVerbs : Invoke(c, v, ConcUrl, NoBody, FALSE, FALSE, "none")
    /\ op' = [op EXCEPT ![c] = RawOp]
    /\ UNCHANGED << trace, result, baseUrl >>
    /\ UNCHANGED aside

\* the answers the backend gives while the stored token is expired: the
\* payload, a recoverable 401, or none at all
ConcResponses ==
    { OkResp, NoResponse,
      [NoResp EXCEPT !.kind = "error", !.status = 401,
                     !.code = "authorization.unauthorized", !.at = "code"] }

\* answers to the POST auth/login of a re-authentication: a new token or
\* no answer
ConcLoginResponses ==
    { r \in LoginResponses : HasNoResponse(r) \/ LoginSucceeded(r) }

NextConc ==
    \/ \E c \in Calls : ConcCall(c)
    \/ \E c \in Calls : ReadToken1(c)
    \/ \E c \in Calls : CredGet(c)
    \/ \E c \in Calls, r \in ConcLoginResponses : LoginRespond(c, r)
    \/ \E c \in Calls, ok \in BOOLEAN : TokenSet(c, ok)
    \/ \E c \in Calls : ReadToken2(c)
    \/ \E c \in Calls, r \in ConcResponses : Respond(c, r)
    \/ \E c \in Calls : Return(c)
    \/ ClearToken

SpecConc == Init /\ [][NextConc]_vars

----------------------------------------------------------------------------

(* Resource records: represent(raw) *)

\* a JavaScript value: its type k, its number n and its text s.  A number
\* with s = "NaN" is NaN, a Date with s = "Invalid Date" is an invalid Date,
\* a Date with s = "legacy" holds a time the engine's fallback parser chose,
\* an Array is given by the text s its elements join to
JsValue(k, n, s) == [k |-> k, n |-> n, s |-> s]

Undefined == JsValue("undefined", 0, "")

Null == JsValue("null", 0, "")

Bool(b) == JsValue("boolean", IF b THEN 1 ELSE 0, "")

Num(n) == JsValue("number", n, "")

NaN == JsValue("number", 0, "NaN")

Str(s) == JsValue("string", 0, s)

DateOf(t) == JsValue("Date", t, "")

InvalidDate == JsValue("Date", 0, "Invalid Date")

LegacyDate == JsValue("Date", 0, "legacy")

Arr(s) == JsValue("Array", 0, s)

\* the decimal numerals
Numerals == << "0", "1", "2", "3", "4", "5", "6", "7", "8", "9" >>

NumberToString(n) == Numerals[n + 1]

IsNumeral(s) == \E i \in DOMAIN Numerals : Numerals[i] = s

\* StringToNumber: the empty string is 0, a numeral its value, other text NaN
StringToNumber(s) ==
    IF s = "" THEN Num(0)
    ELSE IF IsNumeral(s)
    THEN Num((CHOOSE i \in DOMAIN Numerals : Numerals[i] = s) - 1)
    ELSE NaN

\* the milliseconds of the timestamps a payload carries
Times == {0, 1}

\* Date.prototype.toISOString / toString of a time within the first second
\* of the epoch: toString drops the milliseconds
IsoText(t) == IF t = 0 THEN "1970-01-01T00:00:00.000Z" ELSE "1970-01-01T00:00:00.001Z"

DateText(t) == "Thu Jan 01 1970 00:00:00 GMT+0000 (Coordinated Universal Time)"

\* Number(v)
ToNumber(v) ==
    CASE v.k = "undefined" -> NaN
      [] v.k = "null" -> Num(0)
      [] v.k = "boolean" -> Num(v.n)
      [] v.k = "number" -> v
      [] v.k = "string" -> StringToNumber(v.s)
      [] v.k = "Date" -> IF v.s = "Invalid Date" THEN NaN
                         ELSE IF v.s = "legacy" THEN JsValue("number", 0, "legacy")
                         ELSE Num(v.n)
      [] v.k = "Array" -> StringToNumber(v.s)

\* String(v)
ToText(v) ==
    CASE v.k = "undefined" -> "undefined"
      [] v.k = "null" -> "null"
      [] v.k = "boolean" -> IF v.n = 1 THEN "true" ELSE "false"
      [] v.k = "number" -> IF v.s = "" THEN NumberToString(v.n) ELSE v.s
      [] v.k = "string" -> v.s
      [] v.k = "Date" -> IF v.s = "" THEN DateText(v.n) ELSE v.s
      [] v.k = "Array" -> v.s

ToString(v) == Str(ToText(v))

\* the truthiness of v
Truthy(v) ==
    CASE v.k \in {"undefined", "null"} -> FALSE
      [] v.k = "boolean" -> v.n = 1
      [] v.k = "number" -> v.s # "NaN" /\ (v.s = "legacy" \/ v.n # 0)
      [] v.k = "string" -> v.s # ""
      [] v.k \in {"Date", "Array"} -> TRUE

\* Boolean(v)
ToBoolean(v) == Bool(Truthy(v))

\* Date.parse: the ISO format, the format of toString, and the engine's
\* fallback for other text (a numeral reads as a date, words do not)
ParseDate(s) ==
    IF \E t \in Times : IsoText(t) = s
    THEN DateOf(CHOOSE t \in Times : IsoText(t) = s)
    ELSE IF \E t \in Times : DateText(t) = s THEN DateOf(0)
    ELSE IF IsNumeral(s) THEN LegacyDate
    ELSE InvalidDate

\* new Date(v)
NewDate(v) ==
    CASE v.k = "undefined" -> InvalidDate
      [] v.k = "null" -> DateOf(0)
      [] v.k = "boolean" -> DateOf(v.n)
      [] v.k = "number" -> IF v.s = "NaN" THEN InvalidDate
                           ELSE IF v.s = "legacy" THEN LegacyDate
                           ELSE DateOf(v.n)
      [] v.k = "string" -> ParseDate(v.s)
      [] v.k = "Date" -> v
      [] v.k = "Array" -> ParseDate(v.s)

\* v ? new Date(v) : null
DateOrNull(v) == IF Truthy(v) THEN NewDate(v) ELSE Null

\* (raw.url && raw.url !== 'url') ? String(raw.url) : null
UrlOrNull(v) == IF Truthy(v) /\ v # Str("url") THEN ToString(v) ELSE Null

\* Number(v) || null
NumberOrNull(v) == IF Truthy(ToNumber(v)) THEN ToNumber(v) ELSE Null

\* CattrTasks.represent
TasksRepresent(raw) ==
    [id |-> ToNumber(raw.id),
     projectId |-> ToNumber(raw.project_id),
     name |-> ToString(raw.task_name),
     description |-> ToString(raw.description),
     url |-> UrlOrNull(raw.url),
     isActive |-> ToBoolean(raw.active),
     isImportant |-> ToBoolean(raw.important),
     assigneeId |-> ToNumber(raw.user_id),
     assignedById |-> ToNumber(raw.assigned_by),
     priorityId |-> ToNumber(raw.priority_id),
     createdAt |-> NewDate(raw.created_at),
     updatedAt |-> NewDate(raw.updated_at),
     deletedAt |-> DateOrNull(raw.deleted_at)]

\* CattrProjects.represent
ProjectsRepresent(raw) ==
    [id |-> raw.id,
     name |-> raw.name,
     description |-> raw.description,
     important |-> ToBoolean(raw.important),
     source |-> ToString(raw.source),
     createdAt |-> NewDate(raw.created_at),
     updatedAt |-> NewDate(raw.updated_at),
     deletedAt |-> DateOrNull(raw.deleted_at)]

\* CattrTime.represent
TimeRepresent(raw) ==
    [id |-> ToNumber(raw.id),
     projectId |-> ToNumber(raw.project_id),
     assigneeId |-> ToNumber(raw.user_id),
     start |-> NewDate(raw.start),
     end |-> NewDate(raw.end),
     time |-> ToNumber(raw.time)]

\* CattrIntervals.represent of intervals.js
IntervalsRepresent(raw) ==
    [id |-> ToNumber(raw.id),
     taskId |-> ToNumber(raw.task_id),
     userId |-> ToNumber(raw.user_id),
     start |-> NewDate(raw.start_at),
     end |-> NewDate(raw.end_at),
     mouse |-> ToNumber(raw.count_mouse),
     keyboard |-> ToNumber(raw.count_keyboard),
     createdAt |-> NewDate(raw.created_at),
     updatedAt |-> NewDate(raw.updated_at)]

\* CattrIntervals.represent of offline-sync.js
ActivityRepresent(raw) ==
    [id |-> ToNumber(raw.id),
     taskId |-> ToNumber(raw.task_id),
     userId |-> ToNumber(raw.user_id),
     start |-> NewDate(raw.start_at),
     end |-> NewDate(raw.end_at),
     systemActivity |-> ToNumber(raw.activity_fill),
     mouseActivity |-> NumberOrNull(raw.mouse_fill),
     keyboardActivity |-> NumberOrNull(raw.keyboard_fill),
     createdAt |-> NewDate(raw.created_at),
     updatedAt |-> NewDate(raw.updated_at)]

\* CattrScreenshots.represent
ScreenshotsRepresent(raw) ==
    [id |-> ToNumber(raw.id),
     intervalId |-> ToNumber(raw.time_interval_id),
     path |-> ToString(raw.path),
     thumbnailPath |-> ToString(raw.thumbnail_path),
     createdAt |-> NewDate(raw.created_at),
     updatedAt |-> NewDate(raw.updated_at)]

Resources == {"tasks", "projects", "time", "intervals", "activity", "screenshots"}

Represent(kind, raw) ==
    CASE kind = "tasks" -> TasksRepresent(raw)
      [] kind = "projects" -> ProjectsRepresent(raw)
      [] kind = "time" -> TimeRepresent(raw)
      [] kind = "intervals" -> IntervalsRepresent(raw)
      [] kind = "activity" -> ActivityRepresent(raw)
      [] kind = "screenshots" -> ScreenshotsRepresent(raw)

\* the raw field each field of a produced record was read from
RawName(kind) ==
    CASE kind = "tasks" ->
            [id |-> "id", projectId |-> "project_id", name |-> "task_name",
             description |-> "description", url |-> "url", isActive |-> "active",
             isImportant |-> "important", assigneeId |-> "user_id",
             assignedById |-> "assigned_by", priorityId |-> "priority_id",
             createdAt |-> "created_at", updatedAt |-> "updated_at",
             deletedAt |-> "deleted_at"]
      [] kind = "projects" ->
            [id |-> "id", name |-> "name", description |-> "description",
             important |-> "important", source |-> "source",
             createdAt |-> "created_at", updatedAt |-> "updated_at",
             deletedAt |-> "deleted_at"]
      [] kind = "time" ->
            [id |-> "id", projectId |-> "project_id", assigneeId |-> "user_id",
             start |-> "start", end |-> "end", time |-> "time"]
      [] kind = "intervals" ->
            [id |-> "id", taskId |-> "task_id", userId |-> "user_id",
             start |-> "start_at", end |-> "end_at", mouse |-> "count_mouse",
             keyboard |-> "count_keyboard", createdAt |-> "created_at",
             updatedAt |-> "updated_at"]
      [] kind = "activity" ->
            [id |-> "id", taskId |-> "task_id", userId |-> "user_id",
             start |-> "start_at", end |-> "end_at",
             systemActivity |-> "activity_fill", mouseActivity |-> "mouse_fill",
             keyboardActivity |-> "keyboard_fill", createdAt |-> "created_at",
             updatedAt |-> "updated_at"]
      [] kind = "screenshots" ->
            [id |-> "id", intervalId |-> "time_interval_id", path |-> "path",
             thumbnailPath |-> "thumbnail_path", createdAt |-> "created_at",
             updatedAt |-> "updated_at"]

RawFields(kind) == { RawName(kind)[f] : f \in DOMAIN RawName(kind) }

\* the values a decoded JSON payload holds in a field (an absent field
\* reads as undefined)
RawValues ==
    { Undefined, Null, Bool(TRUE), Bool(FALSE), Num(0), Num(1),
      Str(""), Str("url"), Str("1"), Str("abc"), Str(IsoText(1)),
      Arr(""), Arr("url"), Arr("1") }

\* what the other fields of a raw record hold: nothing, or a number
FillValues == { Undefined, Num(1) }

\* raw records: one field holds v, the others hold w
RawRecords(kind) ==
    { [f \in RawFields(kind) |-> IF f = g THEN v ELSE w] :
        g \in RawFields(kind), v \in RawValues, w \in FillValues }

\* the record e under the raw field names again
AsRaw(kind, e) ==
    [f \in RawFields(kind) |->
        e[CHOOSE g \in DOMAIN RawName(kind) : RawName(kind)[g] = f]]

RepOp(kind) ==
    [name |-> "represent", phase |-> "finished", flag |-> FALSE, url |-> NoUrl,
     arg |-> << kind >>]

\* a caller shapes a raw record of a payload: Resource.represent(raw)
Shape(c, kind, raw) ==
    /\ AllIdle
    /\ kind \in Resources
    /\ op' = [op EXCEPT ![c] = RepOp(kind)]
    /\ entity' = [entity EXCEPT ![c] = << Represent(kind, raw) >>]
    /\ UNCHANGED << core, trace, result, baseUrl, held, revoked >>

\* the caller feeds the record back under the raw field names
Reshape(c) ==
    /\ op[c].name = "represent"
    /\ Len(entity[c]) = 1
    /\ entity' = [entity EXCEPT ![c] =
                     Append(@, Represent(op[c].arg[1], AsRaw(op[c].arg[1], @[1])))]
    /\ UNCHANGED << core, op, trace, result, baseUrl, held, revoked >>

\* the caller drops the records
Forget(c) ==
    /\ op[c].name = "represent"
    /\ op' = [op EXCEPT ![c] = NoOp]
    /\ entity' = [entity EXCEPT ![c] = << >>]
    /\ UNCHANGED << core, trace, result, baseUrl, held, revoked >>

NextRep ==
    \/ \E c \in Calls, kind \in Resources :
          \E raw \in RawRecords(kind) : Shape(c, kind, raw)
    \/ \E c \in Calls : Reshape(c)
    \/ \E c \in Calls : Forget(c)

SpecRep == Init /\ [][NextRep]_vars

----------------------------------------------------------------------------

(* The older get()/post() *)

\* err.response ? !Number.isNaN(err.response.status) : true
LegacyNetworkFlag(r) == IF HasNoResponse(r) THEN TRUE ELSE r.status \in Nat

\* the older test of "isn't related to the authentication token": it reads
\* err.response.data.error_type
LegacyIsAuthError(r) ==
    /\ r.status = 401
    /\ r.at = "error_type"
    /\ r.code \in {"authorization.unauthorized", "authorization.token_expired"}

\* the transport answers the older get()/post(): its catch block builds no
\* context
LegacyRespond(c, r) ==
    /\ pc[c] = "awaitResp"
    /\ r \in AnswersTo(Last(sent[c]))
    /\ LET fail(isNet) ==
               /\ pc' = [pc EXCEPT ![c] = "done"]
               /\ outcome' = [outcome EXCEPT ![c] = Failure(isNet, r, NoContext)]
               /\ UNCHANGED << site, err, opts, depth, relog >>
       IN IF r.kind = "ok"
          THEN /\ pc' = [pc EXCEPT ![c] = "done"]
               /\ outcome' = [outcome EXCEPT ![c] = Success(r)]
               /\ UNCHANGED << site, err, opts, depth, relog >>
          ELSE IF opts[c].noAuth THEN fail(LegacyNetworkFlag(r))
          ELSE IF HasNoResponse(r) THEN fail(TRUE)
          ELSE IF ~LegacyIsAuthError(r) THEN fail(FALSE)
          ELSE IF opts[c].noRelogin THEN fail(FALSE)
          ELSE BeginRelogin(c, "post", r)
    /\ answers' = [answers EXCEPT ![c] = Append(@, r)]
    /\ UNCHANGED << tokenStore, credentials, args, authRes, sent, token >>
    /\ UNCHANGED upper

NextLegacy ==
    \/ \E c \in Calls : Call(c)
    \/ \E c \in Calls : ReadToken1(c)
    \/ \E c \in Calls : CredGet(c)
    \/ \E c \in Calls, r \in LoginResponses : LoginRespond(c, r)
    \/ \E c \in Calls, ok \in BOOLEAN : TokenSet(c, ok)
    \/ \E c \in Calls : ReadToken2(c)
    \/ \E c \in Calls, r \in Responses \cup ShapedErrorResponses :
          LegacyRespond(c, r)
    \/ \E c \in Calls : Return(c)
    \/ ClearToken

SpecLegacy == Init /\ [][NextLegacy]_vars

----------------------------------------------------------------------------

(* An options record passed again *)

\* a direct call that is handed the record the application holds
ReuseOp == [RawOp EXCEPT !.arg = << "held" >>]

\* the record post() receives: get() and post() are handed the caller's
\* object itself, patch() and put() build { method, ...opts }
PassedToPost(v, o) ==
    IF v \in {"put", "patch"}
    THEN [o EXCEPT !.method = v, !.shared = FALSE]
    ELSE [o EXCEPT !.shared = TRUE]

\* get(url, record), post(url, body, record), ... with the record the
\* application holds
CallReusing(c) ==
    /\ AllIdle
    /\ \E v \in Verbs, u \in Urls, b \in Bodies :
          /\ b \in (IF v = "get" THEN {NoBody} ELSE Bodies)
          /\ Start(c, [verb |-> v, url |-> u, body |-> b, nullBody |-> FALSE],
                   PassedToPost(v, held))
    /\ op' = [op EXCEPT ![c] = ReuseOp]
    /\ UNCHANGED << trace, result, baseUrl >>
    /\ UNCHANGED aside

\* the application replaces its record by a new one: {}
Renew ==
    /\ AllIdle
    /\ held # EntryOpts("get", FALSE, FALSE)
    /\ held' = EntryOpts("get", FALSE, FALSE)
    /\ UNCHANGED << core, op, trace, result, baseUrl, entity, revoked >>

NextReuse ==
    \/ \E c \in Calls : CallReusing(c)
    \/ Renew
    \/ \E c \in Calls : ReadToken1(c)
    \/ \E c \in Calls : CredGet(c)
    \/ \E c \in Calls, r \in LoginResponses : LoginRespond(c, r)
    \/ \E c \in Calls, ok \in BOOLEAN : TokenSet(c, ok)
    \/ \E c \in Calls : ReadToken2(c)
    \/ \E c \in Calls, r \in Responses : Respond(c, r)
    \/ \E c \in Calls : Return(c)
    \/ ClearToken

SpecReuse == Init /\ [][NextReuse]_vars

----------------------------------------------------------------------------

(* A call racing with setBaseUrl *)

\* the url the application reconfigures the client with
RaceUrl == << "example.com" >>

\* setBaseUrl called on a configured client while calls may be in flight
RacingSetBaseUrl(c, force) ==
    /\ op[c] = NoOp /\ pc[c] = "idle"
    /\ \A d \in Calls : op[d].name # "setBaseUrl"
    /\ baseUrl # EmptyBase
    /\ BeginSetBaseUrl(c, RaceUrl, force)

\* get('tasks/list') called while setBaseUrl may be in flight
RacingGet(c) ==
    /\ op[c] = NoOp
    /\ Invoke(c, "get", ConcUrl, NoBody, FALSE, FALSE, "none")
    /\ op' = [op EXCEPT ![c] = RawOp]
    /\ UNCHANGED << trace, result, baseUrl >>
    /\ UNCHANGED aside

\* the answers of the race: payloads with and without the marker, and no
\* answer
RaceResponses == StatusResponses \cup {OkResp, NoResponse}

NextRace ==
    \/ \E c \in Calls, force \in BOOLEAN : RacingSetBaseUrl(c, force)
    \/ \E c \in Calls : RacingGet(c)
    \/ \E c \in Calls : RootProbed(c)
    \/ \E c \in Calls, g \in Generations : ApiProbed(c, g)
    \/ \E c \in Calls : ReadToken1(c)
    \/ \E c \in Calls : CredGet(c)
    \/ \E c \in Calls, r \in ConcLoginResponses : LoginRespond(c, r)
    \/ \E c \in Calls, ok \in BOOLEAN : TokenSet(c, ok)
    \/ \E c \in Calls : ReadToken2(c)
    \/ \E c \in Calls, r \in RaceResponses : Respond(c, r)
    \/ \E c \in Calls : Return(c)

SpecRace == Init /\ [][NextRace]_vars

----------------------------------------------------------------------------

(* A session: logout, then further calls *)

SessionOps == {"logout", "me", "tasks.list"}

NextSession ==
    \/ \E c \in Calls, name \in SessionOps, flag \in BOOLEAN, a \in AllInputs :
          OpStart(c, name, flag, a)
    \/ \E c \in Calls, g \in Generations : SessionDone(c, g)
    \/ CoreNext

SpecSession == Init /\ [][NextSession]_vars

----------------------------------------------------------------------------

(* A client before any transport configuration *)

\* the application assigns axiosConfiguration.baseURL: the set trap of the
\* proxy builds the transport instance
Configure ==
    /\ AllIdle
    /\ NoTransport(baseUrl)
    /\ baseUrl' = ConfiguredBase
    /\ UNCHANGED << tokenStore, credentials, pc, args, opts, site, err, token,
                    answers, authRes, depth, sent, outcome, relog >>
    /\ UNCHANGED << op, trace, result, aside >>

\* the client as its constructor leaves it, providers set
InitFresh ==
    /\ InitCore
    /\ baseUrl = NoBaseUrl

NextFresh ==
    \/ Next
    \/ Configure

SpecFresh == InitFresh /\ [][NextFresh]_vars

----------------------------------------------------------------------------

(* Properties *)

IsCall(q) == q.kind = "call"

IsLogin(q) == q.kind = "login"

\* the call's own requests (login requests of re-authentication left out)
CallReqs(c) == SelectSeq(sent[c], IsCall)

LoginReqs(c) == SelectSeq(sent[c], IsLogin)

RecoverableCodes == {"authorization.unauthorized", "authorization.token_expired"}

Recoverable401(r) ==
    /\ r.kind = "error" /\ r.status = 401
    /\ r.at = "code" /\ r.code \in RecoverableCodes

\* the first request was answered by a recoverable 401 and the
\* re-authentication that followed returned true
RetriedAfter401(c) ==
    /\ Len(answers[c]) >= 1
    /\ Recoverable401(answers[c][1])
    /\ \E i \in 1..Len(relog[c]) :
          /\ relog[c][i].site = "post"
          /\ relog[c][i].after = 1
          /\ relog[c][i].result = "true"

\* C1: after a recoverable 401 and a successful re-authentication the core
\* re-invokes itself once (depth 1) with noRelogin set and the same url,
\* method and body; the request reaches the transport a second time unless
\* the token provider holds no token any more; a 401 answer to the re-issued
\* request ends the call with a non-network failure, with no further
\* re-authentication and no third request.
C1_SingleReissue ==
    \A c \in Calls :
        RetriedAfter401(c) =>
            LET q == CallReqs(c) IN
            /\ depth[c] = 1
            /\ opts[c].noRelogin
            /\ pc[c] \in {"readToken1", "readToken2", "awaitResp", "done"}
            /\ Len(q) \in {1, 2}
            /\ Len(q) = 2 =>
                  /\ q[2].url = q[1].url
                  /\ q[2].method = q[1].method
                  /\ q[2].body = q[1].body
                  /\ q[2].noRelogin
            /\ (pc[c] = "done" /\ Len(q) = 1) =>
                  outcome[c].error \in {"CredentialsError", "TypeError"}
            /\ Len(answers[c]) = 2 =>
                  /\ pc[c] = "done"
                  /\ Len(q) = 2
                  /\ \A i \in 1..Len(relog[c]) : relog[c][i].after < 2
                  /\ answers[c][2].status = 401 =>
                        /\ outcome[c].state = "resolved"
                        /\ ~outcome[c].success
                        /\ ~outcome[c].isNetworkError

C1_Witness ==
    \E c \in Calls :
        /\ RetriedAfter401(c)
        /\ Len(answers[c]) = 2
        /\ Recoverable401(answers[c][2])
        /\ args[c].verb = "patch"
        /\ pc[c] = "done"

\* C2: reloginAutomatically is invoked at most once per originating call.
C2_AtMostOneRelogin ==
    \A c \in Calls : Len(relog[c]) <= 1

\* C3: the originating request is handed to the transport at most twice.
C3_AtMostTwoRequests ==
    \A c \in Calls : Len(CallReqs(c)) <= 2

C3_Witness ==
    \E c \in Calls : Len(CallReqs(c)) = 2 /\ Len(LoginReqs(c)) = 2

\* C4: when the token provider yields no token and no re-authentication
\* returned true for it, the call resolves to a credentials-error outcome,
\* its request is not handed to the transport by that invocation, and with
\* noRelogin set reloginAutomatically is not invoked.
C4_CredentialsErrorWithoutToken ==
    \A c \in Calls :
        ( /\ pc[c] = "done"
          /\ ~opts[c].noAuth
          /\ TokenMissing(token[c])
          /\ ~\E i \in 1..Len(relog[c]) :
                 /\ relog[c][i].site = "pre"
                 /\ relog[c][i].after = depth[c]
                 /\ relog[c][i].result = "true" )
        => /\ outcome[c].state = "resolved"
           /\ ~outcome[c].success
           /\ ~outcome[c].isNetworkError
           /\ outcome[c].error = "CredentialsError"
           /\ Len(CallReqs(c)) = depth[c]
           /\ opts[c].noRelogin =>
                 ~\E i \in 1..Len(relog[c]) :
                     relog[c][i].site = "pre" /\ relog[c][i].after = depth[c]

\* C5: a transport failure without a server response ends the call with a
\* network-error outcome; no re-authentication and no re-issue follow it.
C5_NetworkErrorIsFinal ==
    \A c \in Calls :
        (answers[c] # << >> /\ Last(answers[c]).kind = "noResponse") =>
            /\ pc[c] = "done"
            /\ outcome[c].state = "resolved"
            /\ ~outcome[c].success
            /\ outcome[c].isNetworkError
            /\ outcome[c].response = Last(answers[c])
            /\ Len(CallReqs(c)) = Len(answers[c])
            /\ \A i \in 1..Len(relog[c]) : relog[c][i].after < Len(answers[c])

C5_Witness ==
    \E c \in Calls :
        /\ Len(answers[c]) = 2
        /\ Last(answers[c]).kind = "noResponse"
        /\ ~opts[c].noAuth

\* C6: an error status that is not a recoverable 401 ends the call with a
\* non-network failure carrying the original error; no re-authentication
\* and no re-issue follow it.
C6_OtherErrorsPassThrough ==
    \A c \in Calls :
        ( /\ answers[c] # << >>
          /\ Last(answers[c]).kind = "error"
          /\ \/ Last(answers[c]).status # 401
             \/ Last(answers[c]).code \notin RecoverableCodes )
        => /\ pc[c] = "done"
           /\ outcome[c].state = "resolved"
           /\ ~outcome[c].success
           /\ ~outcome[c].isNetworkError
           /\ outcome[c].error = "AxiosError"
           /\ outcome[c].response = Last(answers[c])
           /\ Len(CallReqs(c)) = Len(answers[c])
           /\ \A i \in 1..Len(relog[c]) : relog[c][i].after < Len(answers[c])

C6_Witness ==
    \E c \in Calls :
        /\ answers[c] # << >>
        /\ Last(answers[c]).status = 401
        /\ Last(answers[c]).code = "authorization.wrong_credentials"
        /\ ~opts[c].noAuth
        /\ ~opts[c].noRelogin

\* C7: a call with well-typed arguments always resolves to an outcome
\* record and never rejects.
C7_NeverRejects ==
    \A c \in Calls : outcome[c].state # "rejected"

\* C8: reloginAutomatically never throws: it resolves to true or false.
C8_ReloginNeverThrows ==
    \A c \in Calls : \A i \in 1..Len(relog[c]) : relog[c][i].result # "threw"

\* C9: without a credentials provider, or when its get() yields nothing,
\* reloginAutomatically returns false, sends no login request and does not
\* call the token provider's set().
C9_NoCredentialsNoLogin ==
    credentials \in {"unset", "empty"} =>
        \A c \in Calls :
            /\ LoginReqs(c) = << >>
            /\ pc[c] \notin {"awaitLogin", "tokenSet"}
            /\ \A i \in 1..Len(relog[c]) :
                  /\ relog[c][i].result \in {"pending", "false"}
                  /\ relog[c][i].result = "pending" => (i = Len(relog[c]) /\ pc[c] = "credGet")
                  /\ ~relog[c][i].loginSent
                  /\ relog[c][i].setCalls = 0

C9_Witness ==
    \E c \in Calls :
        /\ credentials = "empty"
        /\ Len(relog[c]) = 1
        /\ relog[c][1].result = "false"
        /\ pc[c] = "done"

LoginOk(e) == e.login.kind = "ok" /\ e.login.token \in Tokens

\* what each reloginAutomatically invocation did with token.set
C10_Relog ==
    \A c \in Calls : \A i \in 1..Len(relog[c]) :
        LET e == relog[c][i] IN
        /\ e.setCalls = (IF LoginOk(e) THEN 1 ELSE 0)
        /\ e.setCalls = 1 => e.setArg = e.login.token
        /\ e.result = "true" => (e.setCalls = 1 /\ e.setDone)
        /\ (e.login.kind # "none" /\ ~LoginOk(e)) => e.result = "false"
        /\ e.setDone => e.result = "true"

\* the steps that may change the stored token
C10_Write ==
    \A c \in Calls :
        /\ (tokenStore' \notin {tokenStore, NoToken}) =>
              \E d \in Calls :
                  /\ pc[d] = "tokenSet"
                  /\ tokenStore' = Last(relog[d]).setArg
                  /\ Last(relog'[d]).result = "true"
        /\ (pc[c] = "tokenSet" /\ pc'[c] # "tokenSet" /\ Last(relog'[c]).result = "true") =>
              tokenStore' = Last(relog[c]).setArg
        /\ (pc[c] = "awaitLogin" /\ pc'[c] \notin {"awaitLogin", "tokenSet"}) =>
              tokenStore' = tokenStore

\* C10: reloginAutomatically calls token.set exactly once, with the token
\* login returned, exactly when login succeeded; it returns true only after
\* that write completed; when login fails it returns false and the stored
\* token is not written; the core writes the stored token nowhere else.
C10_TokenWrittenOnlyByRelogin == []C10_Relog /\ [][C10_Write]_vars

C10_Witness ==
    \E c \in Calls :
        /\ Len(relog[c]) = 2
        /\ relog[c][1].result = "true"
        /\ relog[c][2].result = "true"
        /\ relog[c][1].setArg # relog[c][2].setArg
        /\ tokenStore = relog[c][2].setArg
        /\ pc[c] = "done"
        /\ outcome[c].success

----------------------------------------------------------------------------
(* Request context of failure outcomes *)

\* a finished call that resolved to a failure outcome
Failed(c) ==
    pc[c] = "done" /\ outcome[c].state = "resolved" /\ ~outcome[c].success

C18_Sensitive(k) ==
    \E w \in {"password", "token", "secret", "api_key", "screenshot"} :
        \E i \in 1..Len(k) : k[i] = w

C19_EveryFailureHasContext ==
    \A c \in Calls :
        Failed(c) =>
            /\ outcome[c].context.url = args[c].url
            /\ outcome[c].context.method = Method(args[c].verb, opts[c])

----------------------------------------------------------------------------
(* Authentication and resource operations *)

\* login, authenticateViaSSO, or refresh without the relogin flag
C11_Direct(o) ==
    \/ o.name \in {"login", "authenticateViaSSO"}
    \/ o.name = "refresh" /\ ~o.flag

\* a step of the call itself (a step of the embedding application leaves the
\* call where it is)
C11_OwnStep(c) == pc'[c] # pc[c] \/ op'[c] # op[c]

C11_NoRelogin ==
    \A c \in Calls :
        C11_Direct(op[c]) =>
            /\ relog[c] = << >>
            /\ pc[c] \notin {"credGet", "awaitLogin", "tokenSet"}
            /\ result[c].state = "returned" =>
                  result[c].token = outcome[c].response.token

C11_Frame ==
    \A c \in Calls :
        /\ (op[c].name \in {"login", "refresh", "authenticateViaSSO"}
              \/ op'[c].name \in {"login", "refresh", "authenticateViaSSO"})
              => credentials' = credentials
        /\ ((C11_Direct(op[c]) \/ C11_Direct(op'[c])) /\ C11_OwnStep(c))
              => tokenStore' = tokenStore
        /\ (op[c].name = "refresh" /\ op[c].flag /\ C11_OwnStep(c)
              /\ tokenStore' # tokenStore)
              => /\ pc[c] = "tokenSet"
                 /\ tokenStore' = Last(relog[c]).setArg

\* C11: login, refresh and authenticateViaSSO called directly never write to
\* the token provider or the credentials provider; the token they obtain is
\* only returned to the caller, and no step of the operation changes the
\* stored token, except the write of a re-authentication that ran inside
\* refresh(true).
C11_DirectAuthWritesNothing == []C11_NoRelogin /\ [][C11_Frame]_vars

C11_Witness ==
    \E c \in Calls :
        /\ op[c].name = "login" /\ op[c].phase = "finished"
        /\ result[c].state = "returned"
        /\ result[c].token \in Tokens
        /\ tokenStore \in Tokens
        /\ result[c].token # tokenStore

\* the error class that matches the kind of a failure outcome
C20_Matching(res) ==
    IF res.isNetworkError THEN "NetworkError"
    ELSE IF res.error = "CredentialsError" THEN "CredentialsError"
    ELSE "ApiError"

\* C20: every resource and authentication operation throws, for a failed
\* core outcome, the error of the matching kind (network-error outcome:
\* NetworkError, credentials-error outcome: CredentialsError, API-error
\* outcome: ApiError) and never returns normally.
C20_FailureThrownAsMatchingKind ==
    \A c \in Calls :
        (op[c].name \in OpNames /\ op[c].phase = "finished" /\ Failed(c)) =>
            /\ result[c].state = "threw"
            /\ result[c].error = C20_Matching(outcome[c])

----------------------------------------------------------------------------
(* setBaseUrl and isCattrInstance *)

\* the root a urlString stands for: https unless it names a scheme, and the
\* path "/" unless it has one
WithScheme(s) ==
    IF s[1] \in {"https://", "http://"} THEN s ELSE << "https://" >> \o s

ExpectedRoot(s) ==
    IF Len(WithScheme(s)) = 2 THEN WithScheme(s) \o << "/" >> ELSE WithScheme(s)

\* c runs or has finished setBaseUrl and has seen the answers of n probes
Probed(c, n) == op[c].name = "setBaseUrl" /\ Len(trace[c]) = n

\* an awaited probe whose payload carries the marker setBaseUrl looks for
Confirms(t) == t.outcome.success /\ t.outcome.response.marker = "cattr"

\* the url of the only request of an awaited probe
ProbedUrl(t) == IF Len(t.sent) = 1 THEN t.sent[1].url ELSE << >>

Succeeded(c) ==
    /\ op[c].phase = "finished"
    /\ result[c].state = "returned" /\ result[c].value = "success"

C13_ApiConfirmed(c) ==
    Probed(c, 2) /\ ~Confirms(trace[c][1]) /\ Confirms(trace[c][2])

C14_NotFoundWhenUnconfirmed ==
    \A c \in Calls :
        (Probed(c, 2) /\ ~op[c].flag /\ ~Confirms(trace[c][2])) =>
            /\ op[c].phase = "finished"
            /\ result[c].state = "threw"
            /\ result[c].error = "ApiError"
            /\ result[c].statusIsNumber /\ result[c].statusCode = 404
            /\ result[c].context.url = ProbedUrl(trace[c][2])
            /\ result[c].context.method = "get"

\* C15: setBaseUrl with force = true: for every outcome of the root probe
\* the base URL becomes the normalized root and the call reports success.
C15_ForceAcceptsRoot ==
    \A c \in Calls :
        (op[c].name = "setBaseUrl" /\ op[c].flag /\ Len(trace[c]) >= 1) =>
            /\ Len(trace[c]) = 1
            /\ baseUrl = ExpectedRoot(op[c].arg)
            /\ Succeeded(c)

C15_Witness ==
    \E c \in Calls :
        /\ Probed(c, 1) /\ op[c].flag
        /\ trace[c][1].outcome.isNetworkError
        /\ op[c].arg = << "example.com" >>
        /\ baseUrl = << "https://", "example.com", "/" >>
        /\ Succeeded(c)

\* C16: setBaseUrl with force = true hands no status probe request to the
\* transport.
C16_ForceSendsNothing ==
    \A c \in Calls :
        (op[c].name = "setBaseUrl" /\ op[c].flag) =>
            /\ sent[c] = << >>
            /\ \A i \in 1..Len(trace[c]) : trace[c][i].sent = << >>

\* a 2xx status payload with one of the two marker fields, with neither
C17_Marked(t) ==
    t.outcome.success /\ t.outcome.response.marker \in {"cattr", "amazingtime"}

C17_Unmarked(t) == t.outcome.success /\ t.outcome.response.marker = "none"

\* C17: a status payload with a truthy 'cattr' field or a truthy
\* 'amazingtime' field is accepted both by setBaseUrl's probes and by
\* isCattrInstance; a payload with neither is rejected by both.
C17_EitherMarkerConfirms ==
    \A c \in Calls :
        /\ (op[c].name = "setBaseUrl" /\ ~op[c].flag /\ Len(trace[c]) >= 1
              /\ C17_Marked(trace[c][Len(trace[c])]))
              => Succeeded(c)
        /\ (Probed(c, 2) /\ C17_Unmarked(trace[c][2]))
              => result[c].state = "threw"
        /\ (op[c].name = "isCattrInstance" /\ Len(trace[c]) = 1)
              => /\ C17_Marked(trace[c][1]) => result[c].value = "true"
                 /\ C17_Unmarked(trace[c][1]) => result[c].value = "false"

\* the call of a finished operation failed with an error status of the server
C21_ServerError(c) ==
    /\ op[c].name \in OpNames /\ op[c].phase = "finished"
    /\ Failed(c) /\ outcome[c].error = "AxiosError" /\ ~outcome[c].isNetworkError

\* C21: an ApiError thrown by a resource or authentication operation for a
\* server error response carries the HTTP status as statusCode, the
\* machine-readable code of the response body and the request context of the
\* failed outcome, whichever way it was constructed.
C21_ApiErrorCarriesDiagnostics ==
    \A c \in Calls :
        (C21_ServerError(c) /\ result[c].error = "ApiError") =>
            /\ result[c].statusIsNumber
            /\ result[c].statusCode = outcome[c].response.status
            /\ outcome[c].response.code \in {result[c].code, result[c].type}
            /\ result[c].context = outcome[c].context
            /\ result[c].context.url = args[c].url

\* C22: login with an empty or non-string email, or an empty or non-string
\* password, fails with a TypeError before any transport call and before
\* any provider access.
C22_LoginValidatesFirst ==
    \A c \in Calls :
        (op[c].name = "login"
            /\ (op[c].arg[1] # "string" \/ op[c].arg[2] # "string")) =>
            /\ op[c].phase = "finished"
            /\ result[c].state = "threw" /\ result[c].error = "TypeError"
            /\ pc[c] = "idle"
            /\ sent[c] = << >> /\ relog[c] = << >> /\ trace[c] = << >>

C22_Witness ==
    \E c \in Calls :
        /\ op[c].name = "login" /\ op[c].arg = << "string", "empty" >>
        /\ result[c].state = "threw" /\ result[c].error = "TypeError"
        /\ sent[c] = << >>

\* logout, or refresh without the relogin flag
C23_Suppressed(o) == o.name = "logout" \/ (o.name = "refresh" /\ ~o.flag)

\* C23: logout (single-session or from-all) and refresh(false) never invoke
\* reloginAutomatically, neither when the token is missing nor on a 401, and
\* hand at most one request to the transport; refresh(true) may
\* re-authenticate and hands at most two requests to the transport.
C23_LogoutAndRefreshSuppressRetry ==
    \A c \in Calls :
        /\ (C23_Suppressed(op[c]) /\ pc[c] # "idle") =>
              /\ opts[c].noRelogin
              /\ relog[c] = << >>
              /\ pc[c] \notin {"credGet", "awaitLogin", "tokenSet"}
              /\ Len(sent[c]) <= 1
              /\ depth[c] = 0
        /\ (op[c].name = "refresh" /\ op[c].flag) => Len(CallReqs(c)) <= 2

C23_Witness ==
    \E c \in Calls :
        /\ op[c].name = "logout" /\ op[c].flag /\ op[c].phase = "finished"
        /\ Len(sent[c]) = 1 /\ Len(answers[c]) = 1
        /\ Recoverable401(answers[c][1])
        /\ relog[c] = << >>
        /\ result[c].state = "threw"

\* refresh(true) re-authenticated after a 401 and sent its request again
C23_RetryPermitted ==
    \E c \in Calls :
        /\ op[c].name = "refresh" /\ op[c].flag
        /\ Len(CallReqs(c)) = 2 /\ Len(relog[c]) >= 1

\* a 2xx answer with a string access_token, token_type and expires_in
C24_Complete(r) == r.token \in Tokens /\ r.tokenType = "bearer" /\ r.expires

\* C24: refresh: when the 2xx response lacks a string access_token,
\* token_type or expires_in the call fails with an ApiError whose code is
\* 'unexpected_structure' and returns no token; otherwise it returns the
\* token of the response.
C24_RefreshValidatesShape ==
    \A c \in Calls :
        (op[c].name = "refresh" /\ op[c].phase = "finished"
            /\ pc[c] = "done" /\ outcome[c].success) =>
            IF C24_Complete(outcome[c].response)
            THEN /\ result[c].state = "returned"
                 /\ result[c].token = outcome[c].response.token
            ELSE /\ result[c].state = "threw"
                 /\ result[c].error = "ApiError"
                 /\ "unexpected_structure" \in {result[c].code, result[c].type}
                 /\ result[c].token = NoToken

\* the answer getSingleClickRedirection received
C25_Answer(c) == outcome[c].response

C25_Handoff(c) ==
    /\ op[c].name = "getSingleClickRedirection" /\ op[c].phase = "finished"
    /\ pc[c] = "done" /\ outcome[c].success

\* C25: the SSO handoff rejects a redirection origin whose scheme is not
\* http or https before a redirection URL is built or returned; a URL is
\* returned only when the scheme is http or https and the token type is
\* 'desktop'.
C25_OnlyHttpOrigins ==
    \A c \in Calls :
        /\ C25_Handoff(c) =>
              /\ (C25_Answer(c).origin # << >>
                    /\ C25_Answer(c).origin[1] \notin {"http://", "https://"})
                    => /\ result[c].state = "threw"
                       /\ result[c].url = << >>
              /\ result[c].state = "returned" =>
                    /\ C25_Answer(c).origin # << >>
                    /\ C25_Answer(c).origin[1] \in {"http://", "https://"}
                    /\ C25_Answer(c).tokenType = "desktop"
                    /\ result[c].url = C25_Answer(c).origin
                                          \o << "/auth/desktop/login?token=" >>
                    /\ result[c].token = C25_Answer(c).token
        /\ result[c].url # << >> => C25_Handoff(c)

C25_Witness ==
    \E c \in Calls :
        /\ C25_Handoff(c)
        /\ C25_Answer(c).origin = << "file://", "/etc" >>
        /\ C25_Answer(c).tokenType = "desktop"
        /\ result[c].state = "threw" /\ result[c].error = "Error"
        /\ result[c].url = << >>

----------------------------------------------------------------------------
(* Authentication of requests *)

\* C27: with noAuth set, get/post/put/patch never read the token provider,
\* attach no Bearer Authorization header of their own, never invoke
\* reloginAutomatically and send the request exactly once, even when the
\* server answers 401 'authorization.unauthorized'.
C27_NoAuthSendsOnce ==
    \A c \in Calls :
        (opts[c].noAuth /\ pc[c] # "idle") =>
            /\ pc[c] \in {"awaitResp", "done"}
            /\ token[c] = NoToken
            /\ relog[c] = << >>
            /\ depth[c] = 0
            /\ Len(sent[c]) = 1
            /\ sent[c][1].authorization # "Bearer"
            /\ sent[c][1].authorization = opts[c].authHeader
            /\ sent[c][1].auth = NoToken
            /\ pc[c] = "done" =>
                  /\ Len(answers[c]) = 1
                  /\ outcome[c].state = "resolved"
                  /\ outcome[c].success = (answers[c][1].kind = "ok")

C27_Witness ==
    \E c \in Calls :
        /\ opts[c].noAuth /\ pc[c] = "done"
        /\ tokenStore \in Tokens
        /\ Len(sent[c]) = 1
        /\ Len(answers[c]) = 1
        /\ Recoverable401(answers[c][1])
        /\ answers[c][1].code = "authorization.unauthorized"
        /\ ~outcome[c].success /\ ~outcome[c].isNetworkError

\* the requests sent after a re-authentication that returned true carry the
\* token it wrote
C28_AfterRelogin ==
    \A c \in Calls :
        \A i \in 1..Len(relog[c]) :
            (relog[c][i].result = "true"
                /\ Len(CallReqs(c)) > relog[c][i].after) =>
                /\ CallReqs(c)[relog[c][i].after + 1].auth = relog[c][i].setArg
                /\ CallReqs(c)[relog[c][i].after + 1].authorization = "Bearer"

\* an authenticated request is built with the token the provider holds
C28_Build ==
    \A c \in Calls :
        (Len(sent'[c]) = Len(sent[c]) + 1 /\ Last(sent'[c]).kind = "call"
            /\ ~opts'[c].noAuth) =>
            /\ Last(sent'[c]).authorization = "Bearer"
            /\ Last(sent'[c]).auth = tokenStore
            /\ tokenStore \in Tokens

\* C28: every authenticated request handed to the transport carries
\* 'Authorization: Bearer <t>' where t is the token the provider holds when
\* the request is built, whatever Authorization opts.headers supplied; a
\* request sent after a successful re-authentication carries the token that
\* re-authentication wrote.
C28_BearerIsCurrentToken == []C28_AfterRelogin /\ [][C28_Build]_vars

C28_Witness ==
    \E c \in Calls :
        /\ ~opts[c].noAuth /\ opts[c].authHeader = "custom"
        /\ Len(relog[c]) = 1 /\ relog[c][1].site = "post"
        /\ relog[c][1].result = "true"
        /\ Len(CallReqs(c)) = 2
        /\ CallReqs(c)[2].auth = relog[c][1].setArg
        /\ CallReqs(c)[2].auth # CallReqs(c)[1].auth
        /\ CallReqs(c)[2].authorization = "Bearer"

\* C29: every authenticated request handed to the transport, by get as well
\* as by post/put/patch, carries the client-identification header.
C29_ClientHeaderOnEveryRequest ==
    \A c \in Calls :
        \A i \in 1..Len(sent[c]) :
            sent[c][i].authorization = "Bearer" => sent[c][i].requestedWith

----------------------------------------------------------------------------
(* Argument validation *)

\* a direct call whose url is no string, whose body (post/put/patch) is no
\* record, or (post) whose opts.method is not post, put or patch
C26_Invalid(c) ==
    /\ op[c].name = "raw" /\ Len(op[c].arg) = 3
    /\ \/ op[c].arg[1] # "string"
       \/ args[c].verb # "get" /\ op[c].arg[2] # "record"
       \/ args[c].verb = "post"
            /\ op[c].arg[3] \notin {"none", "post", "put", "patch"}

\* C26: get with a non-string url, post/put/patch with a non-string url or a
\* non-object body, and post with opts.method outside {post, put, patch}
\* fail with a TypeError before the token provider is read, before any
\* re-authentication and before any transport call.
C26_ValidationPrecedesIO ==
    \A c \in Calls :
        C26_Invalid(c) =>
            /\ pc[c] = "done"
            /\ outcome[c] = Rejected("TypeError")
            /\ sent[c] = << >>
            /\ answers[c] = << >>
            /\ relog[c] = << >>

----------------------------------------------------------------------------
(* C30: concurrent re-authentication *)

\* call c has re-authenticated and written the token provider, and has not
\* finished yet
C30_WroteToken(c) ==
    /\ pc[c] \in {"readToken1", "readToken2", "awaitResp"}
    /\ relog[c] # << >>
    /\ Last(relog[c]).setDone

\* re-authentication is not single-flight: two calls in flight at once have
\* each run reloginAutomatically and each written the token provider
C30_BothWroteToken == \A c \in Calls : C30_WroteToken(c)

\* also with another call in flight a call hands at most two requests of its
\* own to the transport
C30_AtMostOneReissue == \A c \in Calls : Len(CallReqs(c)) <= 2

\* C30: when two calls run concurrently and each re-authenticates (after a
\* recoverable 401 or without a token), each call re-issues its own request
\* at most once and each resolves to an outcome record
C30_RacingCallsResolve ==
    \A c \in Calls :
        (pc[c] = "done" /\ \E d \in Calls \ {c} : op[d] # NoOp) =>
            /\ outcome[c].state = "resolved"
            /\ Len(CallReqs(c)) <= 2

----------------------------------------------------------------------------
(* C31: represent is idempotent *)

\* C31: for every resource and every raw input, mapping the record that
\* represent produced back to the raw field names and applying represent
\* again yields the same record
C31_RepresentIdempotent ==
    \A c \in Calls : Len(entity[c]) = 2 => entity[c][2] = entity[c][1]

----------------------------------------------------------------------------
(* C32: re-authentication never nests *)

\* the login request of the running reloginAutomatically was answered with a
\* recoverable 401
C32_LoginUnauthorized(c) ==
    /\ relog[c] # << >>
    /\ Recoverable401(Last(relog[c]).login)

\* C32: the login request of reloginAutomatically is sent with noAuth;
\* whatever the server answers to it, no reloginAutomatically begins while
\* another one of the same call is pending, and the login requests of a call
\* are at most as many as its reloginAutomatically invocations
C32_ReloginNeverNests ==
    \A c \in Calls :
        /\ \A i \in DOMAIN relog[c] :
              relog[c][i].result = "pending" => i = Len(relog[c])
        /\ Len(LoginReqs(c)) <= Len(relog[c])
        /\ \A i \in DOMAIN sent[c] :
              IsLogin(sent[c][i]) =>
                  sent[c][i].authorization = "none" /\ sent[c][i].auth = NoToken

\* a login request was answered with 401 authorization.unauthorized and the
\* reloginAutomatically it belongs to returned false
C32_Witness ==
    \E c \in Calls :
        /\ C32_LoginUnauthorized(c)
        /\ Last(relog[c]).result = "false"
        /\ Len(LoginReqs(c)) = Len(relog[c])

----------------------------------------------------------------------------
(* C33: every call terminates *)

C33_DepthAtMostOne == \A c \in Calls : depth[c] <= 1

\* a call is running: it was invoked and has not settled yet
C33_Running(c) == pc[c] \notin {"idle", "done"}

C33_Terminates == \A c \in Calls : C33_Running(c) ~> pc[c] = "done"

\* C33: provided every transport request and every provider get()/set()
\* eventually returns, every get/post/put/patch call eventually settles, and
\* the retry recurses at most once, for every sequence of server answers
C33_EveryCallSettles == []C33_DepthAtMostOne /\ C33_Terminates

\* a call settled after its retry: two requests of its own, depth one
C33_Witness ==
    \E c \in Calls :
        /\ pc[c] = "done"
        /\ depth[c] = 1
        /\ Len(CallReqs(c)) = 2

----------------------------------------------------------------------------
(* C34: isNetworkError *)

\* the call ended in a failure outcome that carries a transport error
C34_TransportFailure(c) ==
    /\ pc[c] = "done"
    /\ outcome[c].state = "resolved"
    /\ ~outcome[c].success
    /\ outcome[c].error = "AxiosError"

\* C34: in every failure outcome that comes from a transport failure, with or
\* without noAuth, isNetworkError is true exactly when the transport received
\* no server response
C34_NetworkFlagMatchesResponse ==
    \A c \in Calls :
        C34_TransportFailure(c) =>
            (outcome[c].isNetworkError <=> HasNoResponse(outcome[c].response))

----------------------------------------------------------------------------
(* C35: the caller's options record *)

\* call c was handed the record the application holds
C35_Reusing(c) == op[c] = ReuseOp

\* a get/post that is handed a record with noRelogin set never
\* re-authenticates
C35_NoReloginAfterwards ==
    \A c \in Calls :
        (C35_Reusing(c) /\ args[c].verb \in {"get", "post"} /\ held.noRelogin) =>
            relog[c] = << >>

\* when a call returns: a get/post that went through the retry leaves
\* noRelogin set in the application's record, a put/patch leaves the record
\* as it was
C35_Returned ==
    \A c \in Calls :
        (C35_Reusing(c) /\ pc[c] = "done" /\ pc'[c] = "idle") =>
            IF args[c].verb \in {"get", "post"}
            THEN /\ depth[c] = 1 => held'.noRelogin
                 /\ depth[c] = 0 => held' = held
            ELSE held' = held

\* C35: get and post change the caller's options record in place on a retry
\* (noRelogin = true stays in it, and a later get/post with that record never
\* re-authenticates); put and patch pass a copy and leave the record unchanged
C35_RetryMarksCallersRecord ==
    []C35_NoReloginAfterwards /\ [][C35_Returned]_vars

\* a later get/post with the marked record was answered by a recoverable 401
\* and ended without re-authentication
C35_Witness ==
    \E c \in Calls :
        /\ C35_Reusing(c)
        /\ args[c].verb \in {"get", "post"}
        /\ held.noRelogin
        /\ pc[c] = "done"
        /\ answers[c] # << >>
        /\ Recoverable401(Last(answers[c]))

\* a put/patch went through the retry and is about to return
C35_PutRetried ==
    \E c \in Calls :
        /\ C35_Reusing(c)
        /\ args[c].verb \in {"put", "patch"}
        /\ pc[c] = "done"
        /\ depth[c] = 1

----------------------------------------------------------------------------
(* C36: setBaseUrl restores nothing *)

\* a setBaseUrl call has failed
C36_Failed(c) ==
    /\ op[c].name = "setBaseUrl" /\ op[c].phase = "finished"
    /\ result[c].state = "threw"

\* C36: after any setBaseUrl call that fails, baseUrl is '' whatever base URL
\* was configured before the call
C36_FailureLeavesEmptyBase ==
    \A c \in Calls : C36_Failed(c) => baseUrl = EmptyBase

\* after a setBaseUrl call that failed after it had probed, baseUrl is ''
C36_Probed ==
    \A c \in Calls : (C36_Failed(c) /\ trace[c] # << >>) => baseUrl = EmptyBase

\* a step of setBaseUrl that ends in the TypeError of new URL() leaves
\* baseUrl alone, and baseUrl becomes non-empty only in the step in which a
\* setBaseUrl call reports success
C36_Assigns ==
    /\ \A c \in Calls :
          (op'[c].name = "setBaseUrl" /\ op[c] = NoOp /\ op'[c].phase = "finished") =>
              /\ result'[c] = Thrown("TypeError")
              /\ baseUrl' = baseUrl
    /\ (baseUrl' # baseUrl /\ baseUrl' # EmptyBase) =>
          \E c \in Calls :
              /\ op[c].name = "setBaseUrl" /\ op[c].phase # "finished"
              /\ op'[c].phase = "finished"
              /\ result'[c].state = "returned"

\* C36 as the code has it: setBaseUrl sets baseUrl to '' before each probe
\* and restores nothing when a probe fails; a call that fails on parsing its
\* argument probes nothing and leaves baseUrl as it was; baseUrl becomes
\* non-empty only when a setBaseUrl call reports success
C36_ProbeFailureLeavesEmptyBase == []C36_Probed /\ [][C36_Assigns]_vars

\* a base URL was configured, and a later setBaseUrl failed on its probes
C36_Witness ==
    \E c \in Calls :
        /\ C36_Failed(c)
        /\ Len(trace[c]) = 2
        /\ baseUrl = EmptyBase

----------------------------------------------------------------------------
(* C37: a call racing with setBaseUrl *)

\* setBaseUrl was called on a configured client and has reported success
C37_Reconfigured(d) ==
    /\ op[d].name = "setBaseUrl" /\ op[d].phase = "finished"
    /\ result[d].state = "returned"

\* C37: a get call that runs concurrently with a setBaseUrl is sent with the
\* base URL configured before the setBaseUrl or with the one it resolves,
\* never with the empty base installed while it probes
C37_NeverTransientBase ==
    \A c \in Calls, d \in Calls :
        (C37_Reconfigured(d) /\ op[c].name = "raw") =>
            \A i \in DOMAIN sent[c] :
                IsCall(sent[c][i]) => sent[c][i].base # EmptyBase

----------------------------------------------------------------------------
(* C38: logout keeps the providers *)

\* call c takes a step of a logout
C38_LogoutActs(c) ==
    /\ op'[c].name = "logout"
    /\ pc'[c] # pc[c] \/ op'[c] # op[c]

\* no step of a logout writes the token provider or the credentials provider
C38_LogoutStep ==
    \A c \in Calls :
        C38_LogoutActs(c) => tokenStore' = tokenStore /\ credentials' = credentials

\* an authenticated call after a logout: its first request carried a token
\* the backend had logged out and was answered with a recoverable 401
C38_StaleToken(c) ==
    /\ op[c].name \in {"me", "tasks.list"}
    /\ answers[c] # << >>
    /\ sent[c][1].auth \in revoked
    /\ Recoverable401(answers[c][1])

\* such a call runs reloginAutomatically
C38_StaleTokenReauthenticates ==
    \A c \in Calls :
        C38_StaleToken(c) => \E i \in DOMAIN relog[c] : relog[c][i].site = "post"

\* C38: logout writes neither the token provider nor the credentials
\* provider, and a later authenticated call whose logged-out token is
\* answered with a recoverable 401 re-authenticates through
\* reloginAutomatically with the stored credentials
C38_LogoutKeepsProviders ==
    []C38_StaleTokenReauthenticates /\ [][C38_LogoutStep]_vars

\* after a successful logout, a call with the logged-out token was answered
\* 401, logged in again with the stored credentials, and succeeded
C38_Witness ==
    \E c \in Calls :
        /\ C38_StaleToken(c)
        /\ credentials = "valid"
        /\ Last(relog[c]).result = "true"
        /\ pc[c] = "done"
        /\ outcome[c].state = "resolved" /\ outcome[c].success
        /\ Len(CallReqs(c)) = 2


\* a direct call that ended while the client had no transport instance
C39_Unconfigured(c) ==
    /\ op[c] = RawOp
    /\ pc[c] = "done"
    /\ baseUrl = NoBaseUrl

\* the call got as far as this.axios(...): authentication is skipped or a
\* token was stored when the call read it
C39_ReachedTransportCall(c) ==
    opts[c].noAuth \/ ~TokenMissing(token[c])

====
